---------------------------- MODULE Spec2Model ----------------------------
(***************************************************************************)
(* Order / payment store of capactiyvirus/stripe-backend.                  *)
(*                                                                         *)
(* The in-memory backend (store/payment_store.go) keeps models.Order       *)
(* pointers in a map, so the model keeps a heap of order structs and the   *)
(* maps of the PaymentStore struct as separate variables.  Slices and maps *)
(* inside an order (Items, Metadata) are Go reference values: they live in *)
(* a second heap, deep, and an order struct holds a reference into it.     *)
(* The relational backend (store/postgres_store.go) is modelled by the     *)
(* rows its SQL statements read and write, under the constraints of the    *)
(* schema (db/init).                                                       *)
(*                                                                         *)
(* Passive fields that no store code path reads or writes on its own       *)
(* (CustomerInfo.Name/Phone/IPAddress, Payment.Currency/Method) travel     *)
(* with the struct exactly like Email and Amount and are not repeated.     *)
(* Optional timestamps (pointers to time.Time) are modelled by their value, *)
(* NoTime for nil.                                                         *)
(***************************************************************************)
EXTENDS Integers, Sequences, FiniteSets, TLC

VARIABLES
    heap,           \* Go heap: address -> models.Order struct
    deep,           \* Go heap: reference -> contents of an Items slice / Metadata map
    orders,         \* PaymentStore.orders        map[string]*models.Order
    events,         \* PaymentStore.events        map[string][]models.PaymentEvent
    trackingIDs,    \* PaymentStore.trackingIDs   map[string]string
    customerIndex,  \* PaymentStore.customerIndex map[string][]string
    clock,          \* the value time.Now() returns
    held,           \* caller's local variable -> the order pointer it holds
    pgOrders,       \* table orders:      id -> row
    pgItems,        \* table order_items: order_id -> rows, in insertion order
    pgPayments,     \* table payments:    order_id -> row
    ret,            \* the last store call: operation, arguments, result
    created,        \* history: <<id, tracking id>> of every successful CreateOrder
    conc,           \* goroutines inside CreateOrder: PaymentStore.mu, their
                    \* positions and the errors returned to them
    resp,           \* the last HTTP response: route, status code, JSON body
    tx              \* PostgresStore.UpdateOrder in flight between its two
                    \* statements: the order, the time, the rows before

memVars == <<heap, deep, orders, events, trackingIDs, customerIndex>>
pgVars == <<pgOrders, pgItems, pgPayments>>
vars ==
    <<heap, deep, orders, events, trackingIDs, customerIndex, clock, held,
      pgOrders, pgItems, pgPayments, ret, created, conc, resp, tx>>

-----------------------------------------------------------------------------
(* Bounds of the model *)

MaxClock == 2        \* time.Now() ranges over 1..MaxClock
IntBits == 8         \* the width of Go's int, scaled down from 64 bits
MaxEvents == 3       \* events added to the logs in one behaviour
MaxIndexLen == 2     \* longest customerIndex entry explored

-----------------------------------------------------------------------------
(* models/payment.go: statuses and the Order aggregate *)

PaymentStatusPending == "pending"
PaymentStatusSucceeded == "succeeded"
PaymentStatusFailed == "failed"
PaymentStatusCanceled == "canceled"
PaymentStatusRefunded == "refunded"

OrderStatusCreated == "created"
OrderStatusPending == "pending"
OrderStatusPaid == "paid"
OrderStatusFulfilled == "fulfilled"
OrderStatusCanceled == "canceled"
OrderStatusRefunded == "refunded"

PaymentStatus ==
    {PaymentStatusPending, PaymentStatusSucceeded, PaymentStatusFailed,
     PaymentStatusCanceled, PaymentStatusRefunded}

OrderStatus ==
    {OrderStatusCreated, OrderStatusPending, OrderStatusPaid,
     OrderStatusFulfilled, OrderStatusCanceled, OrderStatusRefunded}

NoTime == -1                      \* a nil pointer to time.Time, a NULL timestamp
ZeroTime == 0                     \* the zero time.Time of a struct literal
Times == 1..MaxClock

NilRef == 0                       \* a nil slice / nil map / nil pointer
Ptr == 1..6                       \* addresses of order structs
Ref == 1..8                       \* references of slices and maps

OrderIDs == {"o1", "o2"}
KeyOrder == <<"o1", "o2", "o3">>  \* every identifier used, in one fixed order
TrackIDs == {"t1", "t2"}
Emails == {"a@x", "b@x"}

\* models.PaymentInfo
PaymentInfo(pi, sess, amount, status, processedAt, refundedAt) ==
    [StripePaymentIntentID |-> pi, StripeSessionID |-> sess, Amount |-> amount,
     Status |-> status, ProcessedAt |-> processedAt, RefundedAt |-> refundedAt]

\* models.Order; Items and Metadata are references into deep (NilRef for nil)
Order(id, tid, email, items, meta, pay, status, createdAt, updatedAt, fulfilledAt) ==
    [ID |-> id, TrackingID |-> tid, Email |-> email, Items |-> items,
     Metadata |-> meta, Payment |-> pay, Status |-> status,
     CreatedAt |-> createdAt, UpdatedAt |-> updatedAt, FulfilledAt |-> fulfilledAt]

\* models.PaymentEvent (Data, an opaque value the store never looks at, is
\* left out)
PaymentEvent(id, orderID, eventType, status, createdAt) ==
    [ID |-> id, OrderID |-> orderID, EventType |-> eventType, Status |-> status,
     CreatedAt |-> createdAt]

\* The errors the store returns (fmt.Errorf texts, by kind)
OK == "ok"
ErrEmptyID == "order ID cannot be empty"
ErrNotFound == "order not found"
ErrNotFoundTracking == "order not found with tracking ID"

-----------------------------------------------------------------------------
(* Go maps: a function whose domain is the set of keys present *)

EmptyMap == <<>>
Has(m, k) == k \in DOMAIN m
Put(m, k, v) == (k :> v) @@ m
\* m[k] of a map of slices: the nil slice when k is absent
Lookup(m, k) == IF Has(m, k) THEN m[k] ELSE <<>>

-----------------------------------------------------------------------------
(* The in-memory store as a value: the PaymentStore struct and the heap *)

Store ==
    [heap |-> heap, deep |-> deep, orders |-> orders, events |-> events,
     trackingIDs |-> trackingIDs, customerIndex |-> customerIndex]

\* NewPaymentStore: four empty maps
NewPaymentStore ==
    [heap |-> EmptyMap, deep |-> EmptyMap, orders |-> EmptyMap,
     events |-> EmptyMap, trackingIDs |-> EmptyMap, customerIndex |-> EmptyMap]

\* PaymentStore.CreateOrder(order) with order = the struct at address p
CreateOrder(s, p, now) ==
    LET order == s.heap[p] IN
    IF order.ID = "" THEN [s |-> s, err |-> ErrEmptyID]
    ELSE
      LET stamped == [order EXCEPT !.CreatedAt = now, !.UpdatedAt = now]
          s1 == [s EXCEPT !.heap = Put(@, p, stamped),
                          !.orders = Put(@, order.ID, p)]
          s2 == IF order.TrackingID # ""
                THEN [s1 EXCEPT !.trackingIDs = Put(@, order.TrackingID, order.ID)]
                ELSE s1
          s3 == IF order.Email # ""
                THEN [s2 EXCEPT !.customerIndex =
                         Put(@, order.Email, Append(Lookup(@, order.Email), order.ID))]
                ELSE s2
      IN [s |-> s3, err |-> OK]

\* PaymentStore.GetOrder(orderID): a shallow copy of the stored struct
GetOrder(s, orderID) ==
    IF ~Has(s.orders, orderID) THEN [order |-> NilRef, err |-> ErrNotFound]
    ELSE [order |-> s.heap[s.orders[orderID]], err |-> OK]

\* PaymentStore.GetOrderByTrackingID(trackingID)
GetOrderByTrackingID(s, trackingID) ==
    IF ~Has(s.trackingIDs, trackingID)
    THEN [order |-> NilRef, err |-> ErrNotFoundTracking]
    ELSE GetOrder(s, s.trackingIDs[trackingID])

\* UpdateOrder as it would be if the stored struct stayed in place
UpdateOrderNotStored(s, p, now) ==
    LET order == s.heap[p] IN
    IF ~Has(s.orders, order.ID) THEN [s |-> s, err |-> ErrNotFound]
    ELSE [s |-> [s EXCEPT !.heap = Put(@, p, [order EXCEPT !.UpdatedAt = now])],
          err |-> OK]

\* PaymentStore.UpdateOrder(order) with order = the struct at address p
UpdateOrder(s, p, now) ==
    LET order == s.heap[p] IN
    IF ~Has(s.orders, order.ID) THEN [s |-> s, err |-> ErrNotFound]
    ELSE [s |-> [s EXCEPT !.heap = Put(@, p, [order EXCEPT !.UpdatedAt = now]),
                          !.orders = Put(@, order.ID, p)],
          err |-> OK]

\* PaymentStore.UpdateOrderStatus(orderID, status)
UpdateOrderStatus(s, orderID, status, now) ==
    IF ~Has(s.orders, orderID) THEN [s |-> s, err |-> ErrNotFound]
    ELSE
      LET p == s.orders[orderID]
          o1 == [s.heap[p] EXCEPT !.Status = status, !.UpdatedAt = now]
          o2 == IF status = OrderStatusFulfilled /\ o1.FulfilledAt = NoTime
                THEN [o1 EXCEPT !.FulfilledAt = now]
                ELSE o1
      IN [s |-> [s EXCEPT !.heap = Put(@, p, o2)], err |-> OK]

\* PaymentStore.UpdatePaymentStatus(orderID, status)
UpdatePaymentStatus(s, orderID, status, now) ==
    IF ~Has(s.orders, orderID) THEN [s |-> s, err |-> ErrNotFound]
    ELSE
      LET p == s.orders[orderID]
          o1 == [s.heap[p] EXCEPT !.Payment.Status = status, !.UpdatedAt = now]
          o2 == IF status = PaymentStatusSucceeded /\ o1.Payment.ProcessedAt = NoTime
                THEN [o1 EXCEPT !.Payment.ProcessedAt = now,
                                !.Status = OrderStatusPaid]
                ELSE o1
      IN [s |-> [s EXCEPT !.heap = Put(@, p, o2)], err |-> OK]

\* fmt.Sprintf("evt_%d", time.Now().UnixNano())
EvtID(now) == "evt_" \o ToString(now)

\* AddPaymentEvent as it would be if the new event went to the front of the log
AddPaymentEventPrepending(s, event, now) ==
    LET e1 == IF event.ID = "" THEN [event EXCEPT !.ID = EvtID(now)] ELSE event
        e2 == [e1 EXCEPT !.CreatedAt = now]
    IN [s |-> [s EXCEPT !.events =
                  Put(@, event.OrderID, <<e2>> \o Lookup(@, event.OrderID))],
        err |-> OK]

\* PaymentStore.AddPaymentEvent(event)
AddPaymentEvent(s, event, now) ==
    LET e1 == IF event.ID = "" THEN [event EXCEPT !.ID = EvtID(now)] ELSE event
        e2 == [e1 EXCEPT !.CreatedAt = now]
    IN [s |-> [s EXCEPT !.events =
                  Put(@, event.OrderID, Append(Lookup(@, event.OrderID), e2))],
        err |-> OK]

\* PaymentStore.GetPaymentEvents(orderID): a copy of the log
GetPaymentEvents(s, orderID) ==
    IF ~Has(s.events, orderID) THEN [events |-> <<>>, err |-> OK]
    ELSE [events |-> [i \in 1..Len(s.events[orderID]) |-> s.events[orderID][i]],
          err |-> OK]

\* models.PaymentStats; an amount of money is the fraction num / den.  The
\* two revenues by calendar date (RevenueToday, RevenueThisMonth) are left out.
PaymentStats(total, revenue, pending, completed, refunded, average) ==
    [TotalOrders |-> total, TotalRevenue |-> revenue, PendingOrders |-> pending,
     CompletedOrders |-> completed, RefundedOrders |-> refunded,
     AverageOrderValue |-> average]

\* totalRevenue += float64(order.Payment.Amount) / 100 over the orders ids
\* that are paid or fulfilled, in cents
RECURSIVE Revenue(_, _)
Revenue(s, ids) ==
    IF ids = <<>> THEN 0
    ELSE LET order == s.heap[s.orders[Head(ids)]]
         IN (IF order.Status \in {OrderStatusPaid, OrderStatusFulfilled}
             THEN order.Payment.Amount ELSE 0) + Revenue(s, Tail(ids))

\* GetPaymentStats as it would be if only paid orders counted as completed
GetPaymentStatsPaidOnly(s) ==
    LET ids == SelectSeq(KeyOrder, LAMBDA id : Has(s.orders, id))
        with(S) == Cardinality({id \in DOMAIN s.orders :
                                   s.heap[s.orders[id]].Status \in S})
        completed == with({OrderStatusPaid})
        cents == Revenue(s, ids)
    IN [stats |-> PaymentStats(Len(ids), [num |-> cents, den |-> 100],
                               with({OrderStatusPending}), completed,
                               with({OrderStatusRefunded}),
                               IF completed > 0
                               THEN [num |-> cents, den |-> 100 * completed]
                               ELSE [num |-> 0, den |-> 1]),
        err |-> OK]

\* PaymentStore.GetPaymentStats()
GetPaymentStats(s) ==
    LET ids == SelectSeq(KeyOrder, LAMBDA id : Has(s.orders, id))
        with(S) == Cardinality({id \in DOMAIN s.orders :
                                   s.heap[s.orders[id]].Status \in S})
        completed == with({OrderStatusPaid, OrderStatusFulfilled})
        cents == Revenue(s, ids)
    IN [stats |-> PaymentStats(Len(ids), [num |-> cents, den |-> 100],
                               with({OrderStatusPending}), completed,
                               with({OrderStatusRefunded}),
                               IF completed > 0
                               THEN [num |-> cents, den |-> 100 * completed]
                               ELSE [num |-> 0, den |-> 1]),
        err |-> OK]

\* Go's int: two's complement of IntBits bits, arithmetic wraps around
MinInt == -(2 ^ (IntBits - 1))
MaxInt == (2 ^ (IntBits - 1)) - 1
GoInt == MinInt..MaxInt
Wrap(x) == ((x - MinInt) % (2 ^ IntBits)) + MinInt

\* time.Time.After
After(t, u) == t > u

\* the comparison both listings sort by: creation date, newest first
NewerFirst(a, b) == After(a.CreatedAt, b.CreatedAt)

\* sort.Slice(seq, NewerFirst): not stable, so every arrangement of seq in
\* which no element is newer than one before it
SortSlice(seq) ==
    IF seq = <<>> THEN {<<>>}
    ELSE {[i \in 1..Len(seq) |-> seq[f[i]]] :
             f \in {g \in Permutations(1..Len(seq)) :
                      \A i, j \in 1..Len(seq) :
                          i < j => ~NewerFirst(seq[g[j]], seq[g[i]])}}

\* PaymentStore.GetCustomerOrders(email): the results the call can return,
\* each a slice of shallow copies
GetCustomerOrders(s, email) ==
    IF ~Has(s.customerIndex, email) THEN {[orders |-> <<>>, err |-> OK]}
    ELSE
      LET orderIDs == s.customerIndex[email]
          present == SelectSeq(orderIDs, LAMBDA id : Has(s.orders, id))
          copies == [i \in 1..Len(present) |-> s.heap[s.orders[present[i]]]]
      IN {[orders |-> sorted, err |-> OK] : sorted \in SortSlice(copies)}

\* models.OrderSummary of an order; float64(Amount) / 100 is kept as the
\* fraction it denotes
OrderSummary(s, order) ==
    [ID |-> order.ID, TrackingID |-> order.TrackingID,
     CustomerEmail |-> order.Email,
     TotalAmount |-> [num |-> order.Payment.Amount, den |-> 100],
     Status |-> order.Status,
     ItemCount |-> IF order.Items = NilRef THEN 0 ELSE Len(s.deep[order.Items]),
     CreatedAt |-> order.CreatedAt]

\* make([]*T, 0, n) panics when n is negative or n pointers of 8 bytes
\* exceed the address space; a slice index outside 0..len-1 panics
PanicMakeslice == "panic: runtime error: makeslice: cap out of range"
PanicIndex == "panic: runtime error: index out of range"
MaxSliceCap == MaxInt \div 8

\* PaymentStore.GetAllOrders(limit, offset): the results the call can return.
\* Ranging over the map visits the orders in any order.
GetAllOrders(s, limit, offset) ==
    LET ids == SelectSeq(KeyOrder, LAMBDA id : Has(s.orders, id))
        all == [i \in 1..Len(ids) |-> s.heap[s.orders[ids[i]]]]
        n == Len(all)
        start == IF offset > n THEN n ELSE offset
        sum == Wrap(start + limit)
        end == IF sum > n THEN n ELSE sum
        cap == Wrap(end - start)
    IN IF cap < 0 \/ cap > MaxSliceCap
       THEN {[summaries |-> <<>>, err |-> PanicMakeslice]}
       ELSE IF start < end /\ start < 0
       THEN {[summaries |-> <<>>, err |-> PanicIndex]}
       ELSE {[summaries |-> [i \in 1..(end - start) |->
                               OrderSummary(s, orderList[start + i])],
              err |-> OK] : orderList \in SortSlice(all)}

-----------------------------------------------------------------------------
(* Callers of the store: allocation of order literals, garbage, results *)

\* Allocation takes the lowest free address
NewPtr(h) == CHOOSE p \in Ptr \ DOMAIN h : \A q \in Ptr \ DOMAIN h : p <= q
NewRef(d) == CHOOSE r \in Ref \ DOMAIN d : \A q \in Ref \ DOMAIN d : r <= q

\* &models.Order{...}: the struct o with a fresh Items slice and Metadata map
\* (empty contents stand for a nil slice / nil map, which allocate nothing)
NewOrder(s, o, items, meta) ==
    LET ri == IF items = <<>> THEN NilRef ELSE NewRef(s.deep)
        d1 == IF items = <<>> THEN s.deep ELSE Put(s.deep, ri, items)
        rm == IF meta = <<>> THEN NilRef ELSE NewRef(d1)
        d2 == IF meta = <<>> THEN d1 ELSE Put(d1, rm, meta)
        p == NewPtr(s.heap)
    IN [s |-> [s EXCEPT !.deep = d2,
                        !.heap = Put(@, p, [o EXCEPT !.Items = ri, !.Metadata = rm])],
        p |-> p]

\* The position of x among the distinct elements of seq, by first occurrence
FirstAt(seq, x) == CHOOSE i \in 1..Len(seq) : seq[i] = x /\ \A j \in 1..(i - 1) : seq[j] # x
Rank(seq, x) == Cardinality({seq[j] : j \in 1..FirstAt(seq, x)})
Elems(seq) == {seq[i] : i \in 1..Len(seq)}
RECURSIVE Flatten(_)
Flatten(seqs) == IF seqs = <<>> THEN <<>> ELSE Head(seqs) \o Flatten(Tail(seqs))
Without(seq, x) == SelectSeq(seq, LAMBDA y : y # x)

\* The garbage collector.  Structs, slices and maps that neither the store
\* nor a caller's variable refers to are gone.  An address has no meaning but
\* its identity, so what is left is renumbered in the order in which it is
\* met from the store's map (by key) and then from the callers' variables.
HandleOrder == <<"h1", "h2">>
Collect(s, hs) ==
    LET ids == SelectSeq(KeyOrder, LAMBDA id : Has(s.orders, id))
        hn == SelectSeq(HandleOrder, LAMBDA h : Has(hs, h))
        ptrs == [i \in 1..Len(ids) |-> s.orders[ids[i]]]
                  \o [i \in 1..Len(hn) |-> hs[hn[i]]]
        live == Elems(ptrs)
        byRank == [k \in 1..Cardinality(live) |->
                      CHOOSE p \in live : Rank(ptrs, p) = k]
        refs == Without(Flatten([k \in 1..Len(byRank) |->
                          <<s.heap[byRank[k]].Items, s.heap[byRank[k]].Metadata>>]),
                        NilRef)
        newRef(r) == IF r = NilRef THEN NilRef ELSE Rank(refs, r)
    IN [s |-> [s EXCEPT
                 !.heap = [k \in 1..Len(byRank) |->
                             [s.heap[byRank[k]] EXCEPT !.Items = newRef(@),
                                                       !.Metadata = newRef(@)]],
                 !.deep = [k \in 1..Cardinality(Elems(refs)) |->
                             s.deep[CHOOSE r \in Elems(refs) : Rank(refs, r) = k]],
                 !.orders = [id \in DOMAIN s.orders |-> Rank(ptrs, s.orders[id])]],
        held |-> [h \in DOMAIN hs |-> Rank(ptrs, hs[h])]]

\* What a caller reads through an order struct: its fields, and the contents
\* of its Items slice and Metadata map
View(s, order) ==
    [order EXCEPT !.Items = IF @ = NilRef THEN <<>> ELSE s.deep[@],
                  !.Metadata = IF @ = NilRef THEN <<>> ELSE s.deep[@]]

Commit(s) ==
    /\ heap' = s.heap
    /\ deep' = s.deep
    /\ orders' = s.orders
    /\ events' = s.events
    /\ trackingIDs' = s.trackingIDs
    /\ customerIndex' = s.customerIndex

Result(op, id, arg, err) == [op |-> op, id |-> id, arg |-> arg, err |-> err]

\* The callers' variables after pointer p went into variable keep (into
\* none when keep is NoHandle)
NoHandle == ""
Keep(hs, keep, p) == IF keep = NoHandle THEN hs ELSE Put(hs, keep, p)

\* A call of CreateOrder on a freshly built order; the caller keeps the
\* pointer in its variable keep
CallCreateOrder(o, items, meta, keep) ==
    LET a == NewOrder(Store, o, items, meta)
        r == CreateOrder(a.s, a.p, clock)
        c == Collect(r.s, Keep(held, keep, a.p))
    IN /\ Commit(c.s)
       /\ held' = c.held
       /\ ret' = Result("CreateOrder", o.ID, View(a.s, a.s.heap[a.p]), r.err)
       /\ created' = IF r.err = OK /\ o.TrackingID # ""
                     THEN created \cup {<<o.ID, o.TrackingID>>}
                     ELSE created
       /\ UNCHANGED <<clock, pgVars, conc, resp, tx>>

CallUpdateOrderStatus(orderID, status) ==
    LET r == UpdateOrderStatus(Store, orderID, status, clock)
    IN /\ Commit(r.s)
       /\ ret' = Result("UpdateOrderStatus", orderID, status, r.err)
       /\ UNCHANGED <<clock, held, pgVars, created, conc, resp, tx>>

CallUpdatePaymentStatus(orderID, status) ==
    LET r == UpdatePaymentStatus(Store, orderID, status, clock)
    IN /\ Commit(r.s)
       /\ ret' = Result("UpdatePaymentStatus", orderID, status, r.err)
       /\ UNCHANGED <<clock, held, pgVars, created, conc, resp, tx>>

\* A call of UpdateOrder on a freshly built order
CallUpdateOrder(o, items, meta) ==
    LET a == NewOrder(Store, o, items, meta)
        r == UpdateOrder(a.s, a.p, clock)
        c == Collect(r.s, held)
    IN /\ Commit(c.s)
       /\ held' = c.held
       /\ ret' = Result("UpdateOrder", o.ID, View(a.s, a.s.heap[a.p]), r.err)
       /\ UNCHANGED <<clock, pgVars, created, conc, resp, tx>>

\* order, err := GetOrder(orderID): the copy is a new struct whose Items and
\* Metadata are the references of the stored one
CopyOrder(s, order) ==
    LET p == NewPtr(s.heap) IN [s |-> [s EXCEPT !.heap = Put(@, p, order)], p |-> p]

\* The store calls of handleCheckoutSessionCompleted once the order is found:
\* GetOrder, the session's email and identifier written into the copy,
\* UpdateOrder of the copy
UpdateOrderFromSession(orderID, email, sessionID) ==
    LET g == GetOrder(Store, orderID) IN
    IF g.err # OK
    THEN /\ ret' = Result("GetOrder", orderID, "", g.err)
         /\ UNCHANGED <<memVars, clock, held, pgVars, created, conc, resp, tx>>
    ELSE
      LET a == CopyOrder(Store, [g.order EXCEPT !.Email = email,
                                                !.Payment.StripeSessionID = sessionID])
          r == UpdateOrder(a.s, a.p, clock)
          c == Collect(r.s, held)
      IN /\ Commit(c.s)
         /\ held' = c.held
         /\ ret' = Result("UpdateOrder", orderID, View(a.s, a.s.heap[a.p]), r.err)
         /\ UNCHANGED <<clock, pgVars, created, conc, resp, tx>>

CallGetOrderByTrackingID(trackingID) ==
    LET r == GetOrderByTrackingID(Store, trackingID)
    IN /\ ret' = Result("GetOrderByTrackingID", trackingID,
                        IF r.err = OK THEN View(Store, r.order) ELSE "", r.err)
       /\ UNCHANGED <<memVars, clock, held, pgVars, created, conc, resp, tx>>

CallGetCustomerOrders(email) ==
    \E r \in GetCustomerOrders(Store, email) :
       /\ ret' = Result("GetCustomerOrders", email,
                        [i \in 1..Len(r.orders) |-> View(Store, r.orders[i])], r.err)
       /\ UNCHANGED <<memVars, clock, held, pgVars, created, conc, resp, tx>>

CallGetAllOrders(limit, offset) ==
    \E r \in GetAllOrders(Store, limit, offset) :
       /\ ret' = Result("GetAllOrders", "",
                        [limit |-> limit, offset |-> offset,
                         summaries |-> r.summaries], r.err)
       /\ UNCHANGED <<memVars, clock, held, pgVars, created, conc, resp, tx>>

\* A call of UpdateOrder on the order a caller's variable h points to
CallUpdateOrderHeld(h) ==
    LET r == UpdateOrder(Store, held[h], clock)
        c == Collect(r.s, held)
    IN /\ Commit(c.s)
       /\ held' = c.held
       /\ ret' = Result("UpdateOrder", heap[held[h]].ID, h, r.err)
       /\ UNCHANGED <<clock, pgVars, created, conc, resp, tx>>

\* h, err := GetOrder(orderID): the caller's variable h takes the copy
CallGetOrder(orderID, h) ==
    LET g == GetOrder(Store, orderID) IN
    IF g.err # OK
    THEN /\ ret' = Result("GetOrder", orderID, "", g.err)
         /\ UNCHANGED <<memVars, clock, held, pgVars, created, conc, resp, tx>>
    ELSE
      LET a == CopyOrder(Store, g.order)
          c == Collect(a.s, Keep(held, h, a.p))
      IN /\ Commit(c.s)
         /\ held' = c.held
         /\ ret' = Result("GetOrder", orderID, View(Store, g.order), g.err)
         /\ UNCHANGED <<clock, pgVars, created, conc, resp, tx>>

\* Code outside the store writes through the pointer in its variable h:
\* order.Status = status
WriteStatus(h, status) ==
    /\ heap' = [heap EXCEPT ![held[h]].Status = status]
    /\ ret' = Result("write", h, "Status", OK)
    /\ UNCHANGED <<deep, orders, events, trackingIDs, customerIndex, clock, held,
                   pgVars, created, conc, resp, tx>>

\* order.Items[0].ProductID = product
WriteItem(h, product) ==
    /\ heap[held[h]].Items # NilRef
    /\ deep' = [deep EXCEPT ![heap[held[h]].Items][1] = product]
    /\ ret' = Result("write", h, "Items", OK)
    /\ UNCHANGED <<heap, orders, events, trackingIDs, customerIndex, clock, held,
                   pgVars, created, conc, resp, tx>>

\* order.Metadata[key] = value, for the key the map already has
WriteMetadata(h, value) ==
    /\ heap[held[h]].Metadata # NilRef
    /\ deep' = [deep EXCEPT ![heap[held[h]].Metadata][1][2] = value]
    /\ ret' = Result("write", h, "Metadata", OK)
    /\ UNCHANGED <<heap, orders, events, trackingIDs, customerIndex, clock, held,
                   pgVars, created, conc, resp, tx>>

CallAddPaymentEvent(event) ==
    LET r == AddPaymentEvent(Store, event, clock)
    IN /\ Commit(r.s)
       /\ ret' = Result("AddPaymentEvent", event.OrderID, event, r.err)
       /\ UNCHANGED <<clock, held, pgVars, created, conc, resp, tx>>

CallGetPaymentEvents(orderID) ==
    LET r == GetPaymentEvents(Store, orderID)
    IN /\ ret' = Result("GetPaymentEvents", orderID, r.events, r.err)
       /\ UNCHANGED <<memVars, clock, held, pgVars, created, conc, resp, tx>>

CallGetPaymentStats ==
    LET r == GetPaymentStats(Store)
    IN /\ ret' = Result("GetPaymentStats", "", r.stats, r.err)
       /\ UNCHANGED <<memVars, clock, held, pgVars, created, conc, resp, tx>>

-----------------------------------------------------------------------------
(* The HTTP handlers: handlers/payment_handlers.go.  A handler runs from the *)
(* request to the response in one step, on the in-memory store.             *)

\* No call of PostgresStore.UpdateOrder is between its statements
NoCall == <<>>

\* net/http status codes
StatusOK == 200
StatusCreated == 201
StatusBadRequest == 400
StatusNotFound == 404
StatusInternalServerError == 500

\* respondWithJSON(w, code, payload), respondWithError(w, code, message)
Response(route, code, body) == [route |-> route, code |-> code, body |-> body]
RespondWithError(route, code, message) == Response(route, code, [error |-> message])

\* CreateOrderRequest
CreateOrderRequest(email, items, meta) ==
    [Email |-> email, Items |-> items, Metadata |-> meta]

\* totalAmount: the sum of int64(item.Price * 100 * float64(item.Quantity));
\* every item of the model costs 9.99 and has quantity 1
ItemCents == 999
TotalAmount(items) == ItemCents * Len(items)

\* What the gateway answers to paymentintent.New: an error, or an intent
GatewayError == [err |-> "gateway error", ID |-> "", ClientSecret |-> ""]
GatewayIntent(id) == [err |-> OK, ID |-> id, ClientSecret |-> id \o "_secret"]

\* Handlers.CreateOrder with generateOrderID() = id, generateTrackingID() = tid
\* and the gateway's answer pi
HandleCreateOrder(s, req, id, tid, pi, now) ==
    LET route == "POST /api/payments/create-order" IN
    IF req.Email = ""
    THEN [s |-> s, resp |-> RespondWithError(route, StatusBadRequest,
                                             "Customer email is required")]
    ELSE IF Len(req.Items) = 0
    THEN [s |-> s, resp |-> RespondWithError(route, StatusBadRequest,
                                             "At least one item is required")]
    ELSE
      LET a == NewOrder(s, Order(id, tid, req.Email, NilRef, NilRef,
                                 PaymentInfo("", "", TotalAmount(req.Items),
                                             PaymentStatusPending, NoTime, NoTime),
                                 OrderStatusCreated, ZeroTime, ZeroTime, NoTime),
                        req.Items, req.Metadata)
          c == CreateOrder(a.s, a.p, now)
      IN IF c.err # OK
         THEN [s |-> c.s, resp |-> RespondWithError(route, StatusInternalServerError,
                                                    "Failed to create order")]
         ELSE IF pi.err # OK
         THEN [s |-> c.s, resp |-> RespondWithError(route, StatusInternalServerError,
                                                    "Failed to create payment intent")]
         ELSE
           \* order.Payment.StripePaymentIntentID = pi.ID and order.Status =
           \* pending, written through the pointer the store holds too
           LET w == [c.s EXCEPT !.heap[a.p].Payment.StripePaymentIntentID = pi.ID,
                                !.heap[a.p].Status = OrderStatusPending]
               u == UpdateOrder(w, a.p, now)
           IN IF u.err # OK
              THEN [s |-> u.s, resp |-> RespondWithError(route, StatusInternalServerError,
                                                         "Failed to update order")]
              ELSE
                LET e == AddPaymentEvent(u.s, PaymentEvent("", id, "order_created",
                                                           PaymentStatusPending, ZeroTime),
                                         now)
                IN [s |-> e.s,
                    resp |-> Response(route, StatusCreated,
                                      [order |-> View(e.s, e.s.heap[a.p]),
                                       client_secret |-> pi.ClientSecret])]

\* paymentintent.Get: an error, or the intent's status at the gateway
GatewayStatus ==
    {"error", "succeeded", "canceled", "processing", "requires_payment_method",
     "requires_capture"}

\* convertStripeStatus(stripeStatus)
convertStripeStatus(stripeStatus) ==
    CASE stripeStatus = "succeeded" -> PaymentStatusSucceeded
      [] stripeStatus = "canceled" -> PaymentStatusCanceled
      [] stripeStatus \in {"processing", "requires_payment_method",
                           "requires_confirmation", "requires_action"}
           -> PaymentStatusPending
      [] OTHER -> PaymentStatusFailed

\* Handlers.GetPaymentStatus with the gateway's answer gw
HandleGetPaymentStatus(s, orderID, gw, now) ==
    LET route == "GET /api/payments/status"
        g == GetOrder(s, orderID)
    IN IF g.err # OK
       THEN [s |-> s, resp |-> RespondWithError(route, StatusNotFound, "Order not found")]
       ELSE
         LET sync == /\ g.order.Payment.StripePaymentIntentID # ""
                     /\ gw # "error"
                     /\ convertStripeStatus(gw) # g.order.Payment.Status
             order == IF sync
                      THEN [g.order EXCEPT !.Payment.Status = convertStripeStatus(gw)]
                      ELSE g.order
         IN [s |-> IF sync
                   THEN UpdatePaymentStatus(s, orderID, convertStripeStatus(gw), now).s
                   ELSE s,
             resp |-> Response(route, StatusOK,
                               [order_id |-> order.ID,
                                tracking_id |-> order.TrackingID,
                                payment_status |-> order.Payment.Status,
                                order_status |-> order.Status,
                                amount |-> order.Payment.Amount,
                                created_at |-> order.CreatedAt,
                                updated_at |-> order.UpdatedAt])]

\* FulfillOrder as it would be without the check of the order status
HandleFulfillOrderUnchecked(s, orderID, now) ==
    LET route == "POST /api/payments/fulfill"
        g == GetOrder(s, orderID)
    IN IF g.err # OK
       THEN [s |-> s, resp |-> RespondWithError(route, StatusNotFound, "Order not found")]
       ELSE
         LET u == UpdateOrderStatus(s, orderID, OrderStatusFulfilled, now) IN
         [s |-> AddPaymentEvent(u.s, PaymentEvent("", orderID, "order_fulfilled",
                                                  PaymentStatusSucceeded, ZeroTime),
                                now).s,
          resp |-> Response(route, StatusOK,
                            [message |-> "Order fulfilled successfully",
                             order_id |-> orderID])]

\* Handlers.FulfillOrder
HandleFulfillOrder(s, orderID, now) ==
    LET route == "POST /api/payments/fulfill"
        g == GetOrder(s, orderID)
    IN IF g.err # OK
       THEN [s |-> s, resp |-> RespondWithError(route, StatusNotFound, "Order not found")]
       ELSE IF g.order.Status # OrderStatusPaid
       THEN [s |-> s, resp |-> RespondWithError(route, StatusBadRequest,
                                                "Order must be paid before fulfillment")]
       ELSE
         LET u == UpdateOrderStatus(s, orderID, OrderStatusFulfilled, now) IN
         IF u.err # OK
         THEN [s |-> u.s, resp |-> RespondWithError(route, StatusInternalServerError,
                                                    "Failed to fulfill order")]
         ELSE [s |-> AddPaymentEvent(u.s, PaymentEvent("", orderID, "order_fulfilled",
                                                       PaymentStatusSucceeded, ZeroTime),
                                     now).s,
               resp |-> Response(route, StatusOK,
                                 [message |-> "Order fulfilled successfully",
                                  order_id |-> orderID])]

\* Handlers.RefundOrder
HandleRefundOrder(s, orderID, now) ==
    LET route == "POST /api/payments/refund"
        g == GetOrder(s, orderID)
    IN IF g.err # OK
       THEN [s |-> s, resp |-> RespondWithError(route, StatusNotFound, "Order not found")]
       ELSE IF g.order.Payment.StripePaymentIntentID = ""
       THEN [s |-> s, resp |-> RespondWithError(route, StatusBadRequest,
                                                "No payment intent found for this order")]
       ELSE
         LET u == UpdateOrderStatus(s, orderID, OrderStatusRefunded, now) IN
         IF u.err # OK
         THEN [s |-> u.s, resp |-> RespondWithError(route, StatusInternalServerError,
                                                    "Failed to process refund")]
         ELSE
           LET v == UpdatePaymentStatus(u.s, orderID, PaymentStatusRefunded, now) IN
           IF v.err # OK
           THEN [s |-> v.s, resp |-> RespondWithError(route, StatusInternalServerError,
                                                      "Failed to update payment status")]
           ELSE [s |-> AddPaymentEvent(v.s, PaymentEvent("", orderID, "order_refunded",
                                                         PaymentStatusRefunded, ZeroTime),
                                       now).s,
                 resp |-> Response(route, StatusOK,
                                   [message |-> "Order refunded successfully",
                                    order_id |-> orderID])]

-----------------------------------------------------------------------------
(* The webhook: handlers/webhook_handlers.go *)

\* A nil pointer field of the event object
Nil == "<nil>"

\* stripe.Event after webhook.ConstructEvent: its type and the fields of its
\* data object the handlers read: the object's ID, a checkout session's
\* PaymentIntent and CustomerDetails (its email), a payment intent's
\* LastPaymentError (its code), a dispute's Charge
WebhookEvent(type, id, paymentIntent, customerDetails, lastPaymentError, charge) ==
    [Type |-> type, ID |-> id, PaymentIntent |-> paymentIntent,
     CustomerDetails |-> customerDetails, LastPaymentError |-> lastPaymentError,
     Charge |-> charge]

\* GetAllOrders(1000, 0): the size of the batch the find helpers search,
\* scaled to the number of orders of the model
FindBatch == 2

\* the loop of the find helpers over the summaries: the first order whose
\* field of Payment has the value, "" when none has
RECURSIVE FirstMatch(_, _, _, _)
FirstMatch(s, summaries, field, value) ==
    IF summaries = <<>> THEN ""
    ELSE LET g == GetOrder(s, Head(summaries).ID)
         IN IF g.err = OK /\ g.order.Payment[field] = value THEN g.order.ID
            ELSE FirstMatch(s, Tail(summaries), field, value)

\* Handlers.findOrderByPaymentIntentID: the identifiers it can return
findOrderByPaymentIntentID(s, paymentIntentID) ==
    {IF r.err # OK THEN ""
     ELSE FirstMatch(s, r.summaries, "StripePaymentIntentID", paymentIntentID) :
       r \in GetAllOrders(s, FindBatch, 0)}

\* Handlers.findOrderBySessionID: the identifiers it can return
findOrderBySessionID(s, sessionID) ==
    {IF r.err # OK THEN ""
     ELSE FirstMatch(s, r.summaries, "StripeSessionID", sessionID) :
       r \in GetAllOrders(s, FindBatch, 0)}

\* What a handler of an event leaves: the store, and whether it panicked
Handled(s, panic) == [s |-> s, panic |-> panic]

\* Handlers.handlePaymentIntentSucceeded
handlePaymentIntentSucceeded(s, event, now) ==
    {IF orderID = "" THEN Handled(s, FALSE)
     ELSE LET u == UpdatePaymentStatus(s, orderID, PaymentStatusSucceeded, now) IN
          IF u.err # OK THEN Handled(u.s, FALSE)
          ELSE LET v == UpdateOrderStatus(u.s, orderID, OrderStatusPaid, now) IN
               IF v.err # OK THEN Handled(v.s, FALSE)
               ELSE Handled(AddPaymentEvent(v.s,
                                PaymentEvent("", orderID, "payment_succeeded",
                                             PaymentStatusSucceeded, ZeroTime), now).s,
                            FALSE) :
       orderID \in findOrderByPaymentIntentID(s, event.ID)}

\* Handlers.handlePaymentIntentFailed; the event's Data reads
\* paymentIntent.LastPaymentError.Code
handlePaymentIntentFailed(s, event, now) ==
    {IF orderID = "" THEN Handled(s, FALSE)
     ELSE LET u == UpdatePaymentStatus(s, orderID, PaymentStatusFailed, now) IN
          IF u.err # OK THEN Handled(u.s, FALSE)
          ELSE IF event.LastPaymentError = Nil THEN Handled(u.s, TRUE)
          ELSE Handled(AddPaymentEvent(u.s,
                           PaymentEvent("", orderID, "payment_failed",
                                        PaymentStatusFailed, ZeroTime), now).s,
                       FALSE) :
       orderID \in findOrderByPaymentIntentID(s, event.ID)}

\* Handlers.handlePaymentIntentCanceled; the errors of the two updates are
\* dropped
handlePaymentIntentCanceled(s, event, now) ==
    {IF orderID = "" THEN Handled(s, FALSE)
     ELSE LET u == UpdatePaymentStatus(s, orderID, PaymentStatusCanceled, now)
              v == UpdateOrderStatus(u.s, orderID, OrderStatusCanceled, now)
          IN Handled(AddPaymentEvent(v.s,
                         PaymentEvent("", orderID, "payment_canceled",
                                      PaymentStatusCanceled, ZeroTime), now).s,
                     FALSE) :
       orderID \in findOrderByPaymentIntentID(s, event.ID)}

\* Handlers.handleCheckoutSessionCompleted; the event's Data reads
\* session.PaymentIntent.ID and session.CustomerDetails.Email
handleCheckoutSessionCompleted(s, event, now) ==
    LET found == {IF bySession = "" /\ event.PaymentIntent # Nil
                  THEN findOrderByPaymentIntentID(s, event.PaymentIntent)
                  ELSE {bySession} :
                    bySession \in findOrderBySessionID(s, event.ID)}
    IN {IF orderID = "" THEN Handled(s, FALSE)
        ELSE LET g == GetOrder(s, orderID) IN
             IF g.err # OK THEN Handled(s, FALSE)
             ELSE LET o1 == IF event.CustomerDetails # Nil
                            THEN [g.order EXCEPT !.Email = event.CustomerDetails]
                            ELSE g.order
                      o2 == IF event.PaymentIntent # Nil
                            THEN [o1 EXCEPT !.Payment.StripePaymentIntentID =
                                              event.PaymentIntent]
                            ELSE o1
                      a == CopyOrder(s, [o2 EXCEPT !.Payment.StripeSessionID = event.ID])
                      u == UpdateOrder(a.s, a.p, now)
                  IN IF u.err # OK THEN Handled(u.s, FALSE)
                     ELSE IF event.PaymentIntent = Nil \/ event.CustomerDetails = Nil
                     THEN Handled(u.s, TRUE)
                     ELSE Handled(AddPaymentEvent(u.s,
                                      PaymentEvent("", orderID, "checkout_completed",
                                                   PaymentStatusSucceeded, ZeroTime),
                                      now).s,
                                  FALSE) :
          orderID \in UNION found}

\* Handlers.handleInvoicePaymentSucceeded: the event is logged
handleInvoicePaymentSucceeded(s, event, now) == {Handled(s, FALSE)}

\* Handlers.handleChargeDisputeCreated: the log line reads dispute.Charge.ID
handleChargeDisputeCreated(s, event, now) == {Handled(s, event.Charge = Nil)}

\* Handlers.HandleStripeWebhook: the outcomes of a request whose signature
\* verifies (verified) or does not.  A panic of a handler is answered by
\* middleware.Recoverer.
HandleStripeWebhook(s, verified, event, now) ==
    LET route == "POST /api/payments/webhook" IN
    IF ~verified
    THEN {[s |-> s, resp |-> RespondWithError(route, StatusBadRequest,
                                              "Webhook signature verification failed")]}
    ELSE {[s |-> h.s,
           resp |-> IF h.panic
                    THEN Response(route, StatusInternalServerError, <<>>)
                    ELSE Response(route, StatusOK, [status |-> "success"])] :
            h \in CASE event.Type = "payment_intent.succeeded"
                         -> handlePaymentIntentSucceeded(s, event, now)
                    [] event.Type = "payment_intent.payment_failed"
                         -> handlePaymentIntentFailed(s, event, now)
                    [] event.Type = "payment_intent.canceled"
                         -> handlePaymentIntentCanceled(s, event, now)
                    [] event.Type = "checkout.session.completed"
                         -> handleCheckoutSessionCompleted(s, event, now)
                    [] event.Type = "invoice.payment_succeeded"
                         -> handleInvoicePaymentSucceeded(s, event, now)
                    [] event.Type = "charge.dispute.created"
                         -> handleChargeDisputeCreated(s, event, now)
                    [] OTHER -> {Handled(s, FALSE)}}

\* A request served: the store and the response after handler result r
Serve(r) ==
    LET c == Collect(r.s, held)
    IN /\ Commit(c.s)
       /\ held' = c.held
       /\ resp' = r.resp
       /\ UNCHANGED <<clock, pgVars, ret, created, conc, tx>>

\* The orders of the goroutines that call CreateOrder in parallel, one
\* each, with identifiers, tracking identifiers and emails of their own
\* (TestLoadTest)
LoadOrders ==
    <<Order("o1", "t1", "a@x", NilRef, NilRef,
            PaymentInfo("", "", 1000, PaymentStatusPending, NoTime, NoTime),
            OrderStatusCreated, ZeroTime, ZeroTime, NoTime),
      Order("o2", "t2", "b@x", NilRef, NilRef,
            PaymentInfo("", "", 1000, PaymentStatusPending, NoTime, NoTime),
            OrderStatusCreated, ZeroTime, ZeroTime, NoTime),
      Order("o3", "t3", "c@x", NilRef, NilRef,
            PaymentInfo("", "", 1000, PaymentStatusPending, NoTime, NoTime),
            OrderStatusCreated, ZeroTime, ZeroTime, NoTime)>>
Goroutines == 1..Len(LoadOrders)

\* sync.RWMutex.Lock as it would be if it never waited
CanLockAlways(mu) == TRUE

\* s.mu.Lock() returns only when no goroutine holds the mutex
CanLock(mu) == mu = {}

\* Two goroutines that write the maps at once are a data race: the runtime
\* may stop the program, the write may be lost, or it may go through
FatalMapWrites == "fatal error: concurrent map writes"
CreateOrderRacing(s, p, now) ==
    {CreateOrder(s, p, now), [s |-> s, err |-> OK], [s |-> s, err |-> FatalMapWrites]}

\* goroutine g enters CreateOrder: s.mu.Lock()
GoLock(g) ==
    /\ conc.pc[g] = "go"
    /\ CanLock(conc.mu)
    /\ conc' = [conc EXCEPT !.mu = @ \cup {g}, !.pc[g] = "locked"]
    /\ UNCHANGED <<memVars, clock, held, pgVars, ret, created, resp, tx>>

\* the body of CreateOrder, run by g while it holds the mutex
GoCreateOrder(g) ==
    /\ conc.pc[g] = "locked"
    /\ LET a == NewOrder(Store, LoadOrders[g], <<>>, <<>>)
       IN \E r \in (IF conc.mu = {g} THEN {CreateOrder(a.s, a.p, clock)}
                    ELSE CreateOrderRacing(a.s, a.p, clock)) :
            LET c == Collect(r.s, held)
            IN /\ Commit(c.s)
               /\ held' = c.held
               /\ ret' = Result("CreateOrder", LoadOrders[g].ID,
                                View(a.s, a.s.heap[a.p]), r.err)
               /\ created' = IF r.err = OK /\ Has(r.s.orders, LoadOrders[g].ID)
                             THEN created \cup {<<LoadOrders[g].ID,
                                                  LoadOrders[g].TrackingID>>}
                             ELSE created
               /\ conc' = [conc EXCEPT !.pc[g] = "unlock", !.err[g] = r.err]
    /\ UNCHANGED <<clock, pgVars, resp, tx>>

\* defer s.mu.Unlock(), and the call returns
GoUnlock(g) ==
    /\ conc.pc[g] = "unlock"
    /\ conc' = [conc EXCEPT !.mu = @ \ {g}, !.pc[g] = "done"]
    /\ UNCHANGED <<memVars, clock, held, pgVars, ret, created, resp, tx>>

\* time passes between calls
Tick ==
    /\ clock < MaxClock
    /\ clock' = clock + 1
    /\ UNCHANGED <<memVars, held, pgVars, ret, created, conc, resp, tx>>

Init ==
    /\ heap = NewPaymentStore.heap
    /\ deep = NewPaymentStore.deep
    /\ orders = NewPaymentStore.orders
    /\ events = NewPaymentStore.events
    /\ trackingIDs = NewPaymentStore.trackingIDs
    /\ customerIndex = NewPaymentStore.customerIndex
    /\ clock = 1
    /\ held = EmptyMap
    /\ pgOrders = EmptyMap
    /\ pgItems = EmptyMap
    /\ pgPayments = EmptyMap
    /\ ret = Result("none", "", "", OK)
    /\ created = {}
    /\ conc = [mu |-> {}, pc |-> [g \in Goroutines |-> "go"],
               err |-> [g \in Goroutines |-> OK],
               op |-> [g \in Goroutines |-> NoCall],
               seen |-> [g \in Goroutines |-> NoCall]]
    /\ resp = Response("none", 0, <<>>)
    /\ tx = NoCall

-----------------------------------------------------------------------------
(* SpecStatus: one order is created as the create-order handler builds it,  *)
(* then its two statuses are driven through every value by the status      *)
(* setters, on the stored identifier and on one that is not stored.        *)

\* The order literal of Handlers.CreateOrder (status created, payment pending)
FreshOrder(id, tid, email) ==
    Order(id, tid, email, NilRef, NilRef,
          PaymentInfo("", "", 999, PaymentStatusPending, NoTime, NoTime),
          OrderStatusCreated, ZeroTime, ZeroTime, NoTime)

StatusCreate ==
    /\ ~Has(orders, "o1")
    /\ CallCreateOrder(FreshOrder("o1", "t1", "a@x"), <<"p1">>, <<>>, NoHandle)

StatusSetOrder == \E id \in OrderIDs, st \in OrderStatus : CallUpdateOrderStatus(id, st)

StatusSetPayment == \E id \in OrderIDs, st \in PaymentStatus : CallUpdatePaymentStatus(id, st)

NextStatus == StatusCreate \/ StatusSetOrder \/ StatusSetPayment \/ Tick

SpecStatus == Init /\ [][NextStatus]_vars

-----------------------------------------------------------------------------
(* SpecIndex: orders are created, created again and updated with any         *)
(* identifier, tracking identifier and email, and the indexes are read.     *)
(* SpecPage: orders are created and pages of the listing are read.          *)

IndexEntries == Flatten([i \in 1..Len(<<"a@x", "b@x">>) |->
                           Lookup(customerIndex, <<"a@x", "b@x">>[i])])

\* limit and offset of a page: below, inside and beyond the orders stored
Limits == {-1, 0, 1, 2, MaxInt}
Offsets == {-1, 0, 1, 3}

IndexCreate ==
    \E id \in OrderIDs, tid \in TrackIDs, email \in Emails :
       /\ Len(IndexEntries) < MaxIndexLen
       /\ CallCreateOrder(FreshOrder(id, tid, email), <<"p1">>, <<>>, NoHandle)

IndexUpdate ==
    \E id \in OrderIDs, tid \in TrackIDs :
       CallUpdateOrder(FreshOrder(id, tid, "a@x"), <<"p1">>, <<>>)

IndexUpdateFromSession ==
    \E id \in OrderIDs, email \in Emails : UpdateOrderFromSession(id, email, "cs1")

IndexTrack == \E tid \in TrackIDs : CallGetOrderByTrackingID(tid)

IndexCustomer == \E email \in Emails : CallGetCustomerOrders(email)

IndexAll == \E limit \in Limits, offset \in Offsets : CallGetAllOrders(limit, offset)

NextIndex ==
    \/ IndexCreate
    \/ IndexUpdate
    \/ IndexUpdateFromSession
    \/ IndexTrack
    \/ IndexCustomer
    \/ Tick

SpecIndex == Init /\ [][NextIndex]_vars

NextPage == IndexCreate \/ IndexAll \/ Tick

SpecPage == Init /\ [][NextPage]_vars

-----------------------------------------------------------------------------
(* SpecAlias: code outside the store keeps the pointer it passed to         *)
(* CreateOrder (as Handlers.CreateOrder does) and the copy GetOrder gave    *)
(* it, writes through them, and passes them to UpdateOrder.                 *)

AliasCreate ==
    /\ ~Has(orders, "o1")
    /\ CallCreateOrder(FreshOrder("o1", "t1", "a@x"), <<"p1">>, <<<<"k", "v">>>>, "h1")

AliasGet == CallGetOrder("o1", "h2")

AliasUpdate == \E h \in DOMAIN held : CallUpdateOrderHeld(h)

AliasWrite ==
    \E h \in DOMAIN held :
       \/ \E st \in {OrderStatusPending, OrderStatusCanceled} : WriteStatus(h, st)
       \/ \E product \in {"p1", "p2"} : WriteItem(h, product)
       \/ \E value \in {"v", "w"} : WriteMetadata(h, value)

NextAlias == AliasCreate \/ AliasGet \/ AliasUpdate \/ AliasWrite \/ Tick

SpecAlias == Init /\ [][NextAlias]_vars

-----------------------------------------------------------------------------
(* SpecEvents: events are added to the logs of a stored order and of an     *)
(* identifier that is not stored, with and without an identifier and a      *)
(* creation time of the caller's, while the order is created and its status *)
(* set, and the logs are read.                                              *)

\* every event of every log
AllEvents == Flatten([i \in 1..Len(KeyOrder) |-> Lookup(events, KeyOrder[i])])

EventInputs ==
    {PaymentEvent(id, oid, "payment_succeeded", st, at) :
        id \in {"", "e1"}, oid \in OrderIDs,
        st \in {PaymentStatusSucceeded}, at \in {ZeroTime, 1}}

EventsCreate ==
    /\ ~Has(orders, "o1")
    /\ CallCreateOrder(FreshOrder("o1", "t1", "a@x"), <<"p1">>, <<>>, NoHandle)

EventsAdd ==
    \E event \in EventInputs :
       /\ Len(AllEvents) < MaxEvents
       /\ CallAddPaymentEvent(event)

EventsGet == \E id \in OrderIDs : CallGetPaymentEvents(id)

EventsSetOrder ==
    \E st \in {OrderStatusPaid, OrderStatusFulfilled} : CallUpdateOrderStatus("o1", st)

NextEvents == EventsCreate \/ EventsAdd \/ EventsGet \/ EventsSetOrder \/ Tick

SpecEvents == Init /\ [][NextEvents]_vars

-----------------------------------------------------------------------------
(* SpecStats: up to three orders are created in the statuses and with the   *)
(* amounts of TestGetPaymentStats, their statuses are set to every value,   *)
(* and the statistics are read.                                             *)

StatsOrder(id, tid, email, amount, payStatus, status) ==
    Order(id, tid, email, NilRef, NilRef,
          PaymentInfo("", "", amount, payStatus, NoTime, NoTime),
          status, ZeroTime, ZeroTime, NoTime)

StatsInputs ==
    {StatsOrder("o1", "t1", "a@x", 1000, PaymentStatusSucceeded, OrderStatusPaid),
     StatsOrder("o2", "t2", "b@x", 2000, PaymentStatusSucceeded, OrderStatusFulfilled),
     StatsOrder("o3", "t3", "c@x", 1500, PaymentStatusPending, OrderStatusPending)}

StatsCreate ==
    \E o \in StatsInputs :
       /\ ~Has(orders, o.ID)
       /\ CallCreateOrder(o, <<>>, <<>>, NoHandle)

StatsSetOrder ==
    \E i \in 1..Len(KeyOrder), st \in OrderStatus :
       CallUpdateOrderStatus(KeyOrder[i], st)

StatsGet == CallGetPaymentStats

NextStats == StatsCreate \/ StatsSetOrder \/ StatsGet

SpecStats == Init /\ [][NextStats]_vars

-----------------------------------------------------------------------------
(* SpecWrites: one writer creates an order and then calls UpdateOrder (on a *)
(* new struct, and on a copy read from the store), UpdateOrderStatus and    *)
(* UpdatePaymentStatus in any order and any number of times.                *)

\* An order a caller builds for UpdateOrder: any statuses, no timestamps
WrittenOrders ==
    {Order("o1", "t1", email, NilRef, NilRef,
           PaymentInfo("", "", 999, pst, NoTime, NoTime), st,
           ZeroTime, ZeroTime, NoTime) :
       email \in Emails, pst \in {PaymentStatusPending},
       st \in {OrderStatusCreated, OrderStatusPaid}}

\* The statuses the writer sets
WrittenStatus == {OrderStatusPaid, OrderStatusFulfilled, OrderStatusRefunded}
WrittenPaymentStatus ==
    {PaymentStatusSucceeded, PaymentStatusFailed, PaymentStatusRefunded}

WritesUpdate == \E o \in WrittenOrders : CallUpdateOrder(o, <<"p2">>, <<>>)

WritesUpdateFromSession == UpdateOrderFromSession("o1", "b@x", "cs1")

WritesSetOrder == \E st \in WrittenStatus : CallUpdateOrderStatus("o1", st)

WritesSetPayment == \E st \in WrittenPaymentStatus : CallUpdatePaymentStatus("o1", st)

NextWrites ==
    \/ StatusCreate
    \/ WritesUpdate
    \/ WritesUpdateFromSession
    \/ WritesSetOrder
    \/ WritesSetPayment
    \/ Tick

SpecWrites == Init /\ [][NextWrites]_vars

-----------------------------------------------------------------------------
(* SpecApi: clients post create-order requests, valid and invalid, with the *)
(* gateway answering or failing; they read the payment status, the payment  *)
(* is marked succeeded in the store, and orders are fulfilled.              *)

ServeCreateOrder(req, id, tid, pi) ==
    /\ ~Has(orders, id)           \* rand.Read gives an identifier not in use
    /\ ~Has(trackingIDs, tid)
    /\ Serve(HandleCreateOrder(Store, req, id, tid, pi, clock))

ServeGetPaymentStatus(orderID, gw) ==
    Serve(HandleGetPaymentStatus(Store, orderID, gw, clock))

ServeFulfillOrder(orderID) ==
    /\ Len(AllEvents) < MaxEvents
    /\ Serve(HandleFulfillOrder(Store, orderID, clock))

ApiRequests ==
    {CreateOrderRequest(email, items, <<>>) :
        email \in {"", "a@x"}, items \in {<<>>, <<"p1">>}}

\* The identifiers generateOrderID and generateTrackingID give to a request
ApiFresh == {<<"o1", "t1">>, <<"o2", "t2">>}

ApiCreateOrder ==
    \E req \in ApiRequests, f \in ApiFresh,
       pi \in {GatewayError, GatewayIntent("pi1")} :
       /\ Len(AllEvents) < MaxEvents
       /\ ServeCreateOrder(req, f[1], f[2], pi)

ApiGetPaymentStatus ==
    \E id \in OrderIDs, gw \in GatewayStatus : ServeGetPaymentStatus(id, gw)

\* TestFullPaymentFlow, step 3: the payment is marked succeeded in the store
ApiPay == \E id \in OrderIDs : CallUpdatePaymentStatus(id, PaymentStatusSucceeded)

ApiFulfillOrder == \E id \in OrderIDs : ServeFulfillOrder(id)

NextApi ==
    \/ ApiCreateOrder
    \/ ApiGetPaymentStatus
    \/ ApiPay
    \/ ApiFulfillOrder
    \/ Tick

SpecApi == Init /\ [][NextApi]_vars

(* SpecHook: orders are created by request, each with a payment intent of   *)
(* its own, and the gateway (or anyone) posts webhook events of every type, *)
(* with and without a valid signature and the optional fields.              *)

\* The identifiers and the payment intent of the create-order requests
HookFresh == {<<"o1", "t1", "pi1">>, <<"o2", "t2", "pi2">>, <<"o3", "t3", "pi3">>}

HookCreate ==
    \E f \in HookFresh :
       ServeCreateOrder(CreateOrderRequest("a@x", <<"p1">>, <<>>), f[1], f[2],
                        GatewayIntent(f[3]))

\* Events about the payment intent of order o1, about one no order has, and
\* about no payment intent
HookEvents ==
    {WebhookEvent(type, id, Nil, Nil, err, Nil) :
        type \in {"payment_intent.succeeded", "payment_intent.payment_failed",
                  "payment_intent.canceled"},
        id \in {"pi1", "pi9"}, err \in {Nil, "card_declined"}}
    \cup {WebhookEvent("checkout.session.completed", "cs1", pi, email, Nil, Nil) :
             pi \in {Nil, "pi1"}, email \in {Nil, "b@x"}}
    \cup {WebhookEvent(type, "x1", Nil, Nil, Nil, charge) :
             type \in {"invoice.payment_succeeded", "charge.dispute.created",
                       "customer.created"},
             charge \in {Nil, "ch1"}}

ServeWebhook(verified, event) ==
    /\ \A id \in DOMAIN events : Len(events[id]) < MaxEvents
    /\ \E r \in HandleStripeWebhook(Store, verified, event, clock) : Serve(r)

HookWebhook == \E verified \in BOOLEAN, event \in HookEvents : ServeWebhook(verified, event)

NextHook == HookCreate \/ HookWebhook \/ Tick

SpecHook == Init /\ [][NextHook]_vars

(* SpecFulfill: orders are created by request, paid in the store, and      *)
(* fulfilled through the endpoint, at any time and in any order.            *)

NextFulfill ==
    \/ ApiCreateOrder
    \/ ApiPay
    \/ ApiFulfillOrder
    \/ Tick

SpecFulfill == Init /\ [][NextFulfill]_vars

(* SpecRefund: orders are created by request, paid in the store, and        *)
(* refunded through the endpoint, at any time and in any order.             *)

ServeRefundOrder(orderID) ==
    /\ Len(AllEvents) < MaxEvents
    /\ Serve(HandleRefundOrder(Store, orderID, clock))

ApiRefundOrder == \E id \in OrderIDs : ServeRefundOrder(id)

NextRefund ==
    \/ ApiCreateOrder
    \/ ApiPay
    \/ ApiRefundOrder
    \/ Tick

SpecRefund == Init /\ [][NextRefund]_vars

(* SpecRmw: handleCheckoutSessionCompleted runs step by step (GetOrder, the  *)
(* writes to the copy, UpdateOrder) while other requests set the statuses   *)
(* of the same order through the store.                                    *)

\* handleCheckoutSessionCompleted, lines 631-646: the copy GetOrder gave is
\* given the session's email and identifiers
WriteSession(h, email, paymentIntent, sessionID) ==
    /\ heap' = [heap EXCEPT ![held[h]].Email = email,
                            ![held[h]].Payment.StripePaymentIntentID = paymentIntent,
                            ![held[h]].Payment.StripeSessionID = sessionID]
    /\ ret' = Result("write", h, "session", OK)
    /\ UNCHANGED <<deep, orders, events, trackingIDs, customerIndex, clock, held,
                   pgVars, created, conc, resp, tx>>

RmwGet == CallGetOrder("o1", "h2")

RmwWrite == \E h \in DOMAIN held : WriteSession(h, "b@x", "pi1", "cs1")

RmwUpdate == \E h \in DOMAIN held : CallUpdateOrderHeld(h)

RmwSetOrder ==
    \E st \in {OrderStatusPaid, OrderStatusFulfilled} : CallUpdateOrderStatus("o1", st)

RmwSetPayment ==
    \E st \in {PaymentStatusSucceeded, PaymentStatusRefunded} :
       CallUpdatePaymentStatus("o1", st)

NextRmw ==
    \/ StatusCreate
    \/ RmwGet
    \/ RmwWrite
    \/ RmwUpdate
    \/ RmwSetOrder
    \/ RmwSetPayment
    \/ Tick

SpecRmw == Init /\ [][NextRmw]_vars

(* SpecFlow: one order is created by request with payment intent pi1; then  *)
(* clients read its payment status while the gateway reports any status,    *)
(* fulfill and refund it, and the gateway delivers, and delivers again, the *)
(* payment-intent events, at any time and in any order.                     *)

FlowCreate ==
    /\ Len(AllEvents) < MaxEvents
    /\ \E pi \in {GatewayError, GatewayIntent("pi1")} :
         ServeCreateOrder(CreateOrderRequest("a@x", <<"p1">>, <<>>), "o1", "t1", pi)

FlowGetPaymentStatus == \E gw \in GatewayStatus : ServeGetPaymentStatus("o1", gw)

FlowFulfill == ServeFulfillOrder("o1")

FlowRefund == ServeRefundOrder("o1")

FlowEvents ==
    {WebhookEvent(type, "pi1", Nil, Nil, Nil, Nil) :
        type \in {"payment_intent.succeeded", "payment_intent.payment_failed",
                  "payment_intent.canceled"}}

FlowWebhook == \E event \in FlowEvents : ServeWebhook(TRUE, event)

NextFlow ==
    \/ FlowCreate
    \/ FlowGetPaymentStatus
    \/ FlowFulfill
    \/ FlowRefund
    \/ FlowWebhook
    \/ Tick

SpecFlow == Init /\ [][NextFlow]_vars

-----------------------------------------------------------------------------
(* SpecLoad: the goroutines of TestLoadTest call CreateOrder in parallel,   *)
(* each with an order of its own, in every interleaving.                    *)

LoadLock == \E g \in Goroutines : GoLock(g)

LoadCreate == \E g \in Goroutines : GoCreateOrder(g)

LoadUnlock == \E g \in Goroutines : GoUnlock(g)

NextLoad == LoadLock \/ LoadCreate \/ LoadUnlock \/ Tick

SpecLoad == Init /\ [][NextLoad]_vars

-----------------------------------------------------------------------------
(* SpecLock: goroutines call the operations of the in-memory store on one   *)
(* order at the same time. conc.mu holds the goroutines inside s.mu, each   *)
(* in the mode of its operation; conc.op[g] is the call g makes, and        *)
(* conc.seen[g] what g has read or will return.                             *)

\* The calls: <<method, argument, argument>>
MuOps ==
    {<<"CreateOrder", "o1", "t1">>,
     <<"UpdateOrderStatus", "o1", OrderStatusPaid>>,
     <<"UpdatePaymentStatus", "o1", PaymentStatusSucceeded>>,
     <<"GetOrder", "o1", "">>,
     <<"GetOrderByTrackingID", "t1", "">>}

\* the methods that take s.mu.Lock(); the others take s.mu.RLock()
IsWrite(op) == op[1] \in {"CreateOrder", "UpdateOrderStatus", "UpdatePaymentStatus"}

\* sync.RWMutex.RLock as it would be if it never waited
CanRLockAlways(c) == TRUE

\* s.mu.RLock() returns only when no writer holds the mutex and none waits
CanRLock(c) ==
    /\ \A h \in c.mu : ~IsWrite(c.op[h])
    /\ \A h \in Goroutines : c.pc[h] # "pending"

\* A read of the maps while another goroutine writes them is a data race
FatalMapRead == "fatal error: concurrent map read and map write"

\* The body of a method, run between Lock/RLock and the deferred unlock
MuApply(s, op, now) ==
    IF op[1] = "CreateOrder"
    THEN LET a == NewOrder(s, FreshOrder(op[2], op[3], "a@x"), <<>>, <<>>)
             r == CreateOrder(a.s, a.p, now)
         IN [s |-> r.s, res |-> [order |-> NilRef, err |-> r.err]]
    ELSE IF op[1] = "UpdateOrderStatus"
    THEN LET r == UpdateOrderStatus(s, op[2], op[3], now)
         IN [s |-> r.s, res |-> [order |-> NilRef, err |-> r.err]]
    ELSE IF op[1] = "UpdatePaymentStatus"
    THEN LET r == UpdatePaymentStatus(s, op[2], op[3], now)
         IN [s |-> r.s, res |-> [order |-> NilRef, err |-> r.err]]
    ELSE IF op[1] = "GetOrder"
    THEN [s |-> s, res |-> GetOrder(s, op[2])]
    ELSE [s |-> s, res |-> GetOrderByTrackingID(s, op[2])]

\* The outcomes of a body: the method's own when the mutex excludes the
\* others as it must, and those of a data race when it does not
MuOutcomes(s, c, g, now) ==
    LET op == IF c.pc[g] = "locked2" THEN <<"GetOrder", c.op[g][3], "">> ELSE c.op[g]
        r == MuApply(s, op, now)
    IN IF IsWrite(op) /\ c.mu # {g}
       THEN {r, [s |-> s, res |-> [order |-> NilRef, err |-> OK]],
                [s |-> s, res |-> [order |-> NilRef, err |-> FatalMapWrites]]}
       ELSE IF \E h \in c.mu : IsWrite(c.op[h])  /\ h # g
       THEN {r, [s |-> s, res |-> [order |-> NilRef, err |-> FatalMapRead]]}
       ELSE {r}

\* goroutine g calls a method, which calls s.mu.Lock() or s.mu.RLock()
MuCall(g, op) ==
    /\ conc.pc[g] = "go"
    /\ conc' = [conc EXCEPT !.pc[g] = "lock", !.op[g] = op]
    /\ UNCHANGED <<memVars, clock, held, pgVars, ret, created, resp, tx>>

\* Lock() has announced the writer: from now on RLock() waits
MuPend(g) ==
    /\ conc.pc[g] = "lock"
    /\ IsWrite(conc.op[g])
    /\ conc' = [conc EXCEPT !.pc[g] = "pending"]
    /\ UNCHANGED <<memVars, clock, held, pgVars, ret, created, resp, tx>>

\* Lock() or RLock() returns
MuLock(g) ==
    /\ conc.pc[g] \in {"lock", "pending", "lock2"}
    /\ IF IsWrite(conc.op[g]) THEN CanLock(conc.mu) ELSE CanRLock(conc)
    /\ conc' = [conc EXCEPT !.mu = @ \cup {g},
                            !.pc[g] = IF @ = "lock2" THEN "locked2" ELSE "locked"]
    /\ UNCHANGED <<memVars, clock, held, pgVars, ret, created, resp, tx>>

\* the body of the method; GetOrderByTrackingID reads trackingIDs in its
\* first section and calls GetOrder, which locks again, after RUnlock
MuBody(g) ==
    /\ conc.pc[g] \in {"locked", "locked2"}
    /\ \E r \in MuOutcomes(Store, conc, g, clock) :
         LET c == Collect(r.s, held)
             found == /\ conc.pc[g] = "locked"
                      /\ conc.op[g][1] = "GetOrderByTrackingID"
                      /\ r.res.err \notin {ErrNotFoundTracking, FatalMapRead}
         IN /\ Commit(c.s)
            /\ held' = c.held
            /\ conc' = [conc EXCEPT
                          !.pc[g] = IF found THEN "unlock1" ELSE "unlock",
                          !.op[g] = IF found
                                    THEN <<@[1], @[2], Store.trackingIDs[@[2]]>>
                                    ELSE @,
                          !.seen[g] = <<r.res>>]
    /\ UNCHANGED <<clock, pgVars, ret, created, resp, tx>>

\* s.mu.RUnlock() of GetOrderByTrackingID, before it calls s.GetOrder
MuUnlock1(g) ==
    /\ conc.pc[g] = "unlock1"
    /\ conc' = [conc EXCEPT !.mu = @ \ {g}, !.pc[g] = "lock2"]
    /\ UNCHANGED <<memVars, clock, held, pgVars, ret, created, resp, tx>>

\* defer s.mu.Unlock() or s.mu.RUnlock(), and the method returns
MuUnlock(g) ==
    /\ conc.pc[g] = "unlock"
    /\ conc' = [conc EXCEPT !.mu = @ \ {g}, !.pc[g] = "done"]
    /\ ret' = Result(conc.op[g][1], conc.op[g][2], g, conc.seen[g][1].err)
    /\ UNCHANGED <<memVars, clock, held, pgVars, created, resp, tx>>

LockCall == \E g \in Goroutines, op \in MuOps : MuCall(g, op)

LockPend == \E g \in Goroutines : MuPend(g)

LockAcquire == \E g \in Goroutines : MuLock(g)

LockBody == \E g \in Goroutines : MuBody(g)

LockRelease1 == \E g \in Goroutines : MuUnlock1(g)

LockRelease == \E g \in Goroutines : MuUnlock(g)

\* a step of a method that has been called
LockStep == LockPend \/ LockAcquire \/ LockBody \/ LockRelease1 \/ LockRelease

NextLock ==
    \/ LockCall
    \/ LockPend
    \/ LockAcquire
    \/ LockBody
    \/ LockRelease1
    \/ LockRelease

\* The scheduler runs every goroutine that can run
SpecLock == Init /\ [][NextLock]_vars /\ WF_vars(LockStep)

\* The stored order with identifier id, as GetOrder(id) returns it
Stored(id) == GetOrder(Store, id).order

\* C1: for every existing order, whatever its prior state, after
\* UpdatePaymentStatus(id, succeeded) returns without error GetOrder(id) has
\* Status paid, Payment.Status succeeded and a non-nil Payment.ProcessedAt.
C1_SucceededForcesPaid ==
    (/\ ret.op = "UpdatePaymentStatus"
     /\ ret.arg = PaymentStatusSucceeded
     /\ ret.err = OK)
    => /\ GetOrder(Store, ret.id).err = OK
       /\ Stored(ret.id).Status = OrderStatusPaid
       /\ Stored(ret.id).Payment.Status = PaymentStatusSucceeded
       /\ Stored(ret.id).Payment.ProcessedAt # NoTime

\* C2: for every existing order, UpdatePaymentStatus(id, refunded) sets
\* Payment.Status to refunded, sets Payment.RefundedAt if it was nil, keeps it
\* if it was set, and leaves the order Status as it was.
C2_RefundedSetsTimestamp ==
    [][\A id \in OrderIDs :
         (Has(orders, id) /\ CallUpdatePaymentStatus(id, PaymentStatusRefunded))
         => /\ ret'.err = OK
            /\ heap'[orders'[id]].Payment.Status = PaymentStatusRefunded
            /\ heap'[orders'[id]].Payment.RefundedAt # NoTime
            /\ (heap[orders[id]].Payment.RefundedAt # NoTime
                => heap'[orders'[id]].Payment.RefundedAt
                     = heap[orders[id]].Payment.RefundedAt)
            /\ heap'[orders'[id]].Status = heap[orders[id]].Status]_vars

\* C3: UpdateOrder(order), whatever its argument, leaves the stored
\* TrackingID and CreatedAt of that order as they were, and no two stored
\* orders ever share a tracking identifier.
C3_TrackingAndCreationFixed ==
    [][/\ \A id \in OrderIDs :
            (ret'.op = "UpdateOrder" /\ ret'.err = OK /\ ret'.id = id
               /\ Has(orders, id) /\ Has(orders', id))
            => /\ heap'[orders'[id]].TrackingID = heap[orders[id]].TrackingID
               /\ heap'[orders'[id]].CreatedAt = heap[orders[id]].CreatedAt
       /\ \A id1, id2 \in DOMAIN orders' :
            (id1 # id2 /\ heap'[orders'[id1]].TrackingID # "")
            => heap'[orders'[id1]].TrackingID # heap'[orders'[id2]].TrackingID]_vars

\* C3 witness: an order created under one tracking identifier has been
\* updated with a struct that carries the other one
C3_UpdatedWithOtherTracking ==
    /\ ret.op = "UpdateOrder"
    /\ ret.err = OK
    /\ \E t \in TrackIDs : <<ret.id, t>> \in created /\ ret.arg.TrackingID # t

\* C4: no value a caller holds aliases state of the in-memory store: a
\* write through an order passed to CreateOrder or UpdateOrder, or through
\* any part of an order a getter returned, leaves what GetOrder returns as
\* it was.
C4_CallerWritesStayOutside ==
    [][ret'.op = "write"
       => \A id \in OrderIDs :
            Has(orders, id)
            => View(Store', GetOrder(Store', id).order) = View(Store, Stored(id))]_vars

\* C4 witness: a caller has written into the Items of a copy GetOrder gave it
C4_WroteThroughCopy ==
    /\ ret.op = "write"
    /\ ret.id = "h2"
    /\ ret.arg = "Items"

\* C6: for every order created with identifier id and non-empty tracking
\* identifier t, GetOrderByTrackingID(t) returns the order GetOrder(id)
\* returns, whatever store operations followed; and GetOrderByTrackingID of a
\* tracking identifier never assigned fails with a not-found error.
C6_TrackingLookupAgrees ==
    /\ \A c \in created :
          GetOrderByTrackingID(Store, c[2]) = GetOrder(Store, c[1])
    /\ \A t \in TrackIDs :
          (\A c \in created : c[2] # t)
          => GetOrderByTrackingID(Store, t).err = ErrNotFoundTracking

\* C6 witness: two orders have been created and one is looked up by its
\* tracking identifier
C6_LookedUpAmongTwo ==
    /\ ret.op = "GetOrderByTrackingID"
    /\ ret.err = OK
    /\ \E c, d \in created : c[1] # d[1]

\* C9: after any sequence of CreateOrder and UpdateOrder calls,
\* GetCustomerOrders(email) returns exactly the stored orders whose current
\* email is email, each once, newest created first, and an empty collection
\* without error for an email no order has.
C9_CustomerOrdersExact ==
    ret.op = "GetCustomerOrders"
    => LET got == ret.arg
           want == {id \in DOMAIN orders : Stored(id).Email = ret.id}
       IN /\ ret.err = OK
          /\ {got[i].ID : i \in 1..Len(got)} = want
          /\ Len(got) = Cardinality(want)
          /\ \A i \in 1..Len(got) : got[i] = View(Store, Stored(got[i].ID))
          /\ \A i, j \in 1..Len(got) :
                i < j => ~After(got[j].CreatedAt, got[i].CreatedAt)

\* C9 witness: the orders of an email are listed after an update changed the
\* email of a stored order
C9_ListedAfterEmailChange ==
    /\ ret.op = "GetCustomerOrders"
    /\ \E id \in DOMAIN orders :
          \E email \in Emails :
             /\ Stored(id).Email # email
             /\ \E i \in 1..Len(Lookup(customerIndex, email)) :
                   customerIndex[email][i] = id

\* C10: for every integer limit and offset, GetAllOrders(limit, offset)
\* returns without error or fault a page of at most limit summaries taken
\* from the newest-first ordering starting at offset; the page is empty when
\* offset is at least the number of orders.
C10_PageWithoutFault ==
    ret.op = "GetAllOrders"
    => LET page == ret.arg.summaries
           limit == ret.arg.limit
           offset == ret.arg.offset
           n == Cardinality(DOMAIN orders)
       IN /\ ret.err = OK
          /\ Len(page) <= (IF limit < 0 THEN 0 ELSE limit)
          /\ offset >= n => page = <<>>
          /\ \A i \in 1..Len(page) :
                /\ Has(orders, page[i].ID)
                /\ page[i] = OrderSummary(Store, Stored(page[i].ID))
          /\ \A i, j \in 1..Len(page) :
                i < j => /\ page[i].ID # page[j].ID
                         /\ ~After(page[j].CreatedAt, page[i].CreatedAt)

\* C10 witness: a page is asked for with a negative offset
C10_NegativeOffsetAsked ==
    /\ ret.op = "GetAllOrders"
    /\ ret.arg.offset < 0
    /\ orders # EmptyMap

\* C11: AddPaymentEvent(event) never fails, also for an order identifier
\* that is not stored; it appends exactly one event to the log of that
\* identifier; the identifier and the creation time of the event are
\* generated only when the caller gave none, and kept when the caller did.
C11_EventAppendedAsGiven ==
    [][\A e \in EventInputs :
         CallAddPaymentEvent(e)
         => LET old == Lookup(events, e.OrderID)
                log == Lookup(events', e.OrderID)
                x == log[Len(log)]
            IN /\ ret'.err = OK
               /\ Len(log) = Len(old) + 1
               /\ SubSeq(log, 1, Len(old)) = old
               /\ \A id \in DOMAIN events : id # e.OrderID => events'[id] = events[id]
               /\ x.OrderID = e.OrderID
               /\ x.EventType = e.EventType
               /\ x.Status = e.Status
               /\ x.ID = (IF e.ID # "" THEN e.ID ELSE x.ID)
               /\ x.ID # ""
               /\ x.CreatedAt = (IF e.CreatedAt # ZeroTime THEN e.CreatedAt
                                 ELSE x.CreatedAt)
               /\ x.CreatedAt # ZeroTime]_vars

\* C11 witness: an event that carries the caller's creation time was added
\* for an order identifier that is not stored
C11_EventForUnknownOrder ==
    /\ ret.op = "AddPaymentEvent"
    /\ ~Has(orders, ret.id)
    /\ ret.arg.CreatedAt # ZeroTime
    /\ Has(events, ret.id)

\* C12: the event log of every order is append-only: the list
\* GetPaymentEvents(id) returns before any operation is a prefix of the list
\* it returns after it, the events come in the order they were added, by
\* ascending creation time, and an order without events yields an empty
\* list and no error.
C12_EventLogAppendOnly ==
    [][\A id \in OrderIDs :
         LET before == GetPaymentEvents(Store, id)
             after == GetPaymentEvents(Store', id)
         IN /\ before.err = OK
            /\ after.err = OK
            /\ Len(before.events) <= Len(after.events)
            /\ SubSeq(after.events, 1, Len(before.events)) = before.events
            /\ \A i, j \in 1..Len(after.events) :
                  i < j => ~After(after.events[i].CreatedAt, after.events[j].CreatedAt)
            /\ (~Has(events', id) => after.events = <<>>)]_vars

\* C12 witness: a log of events added at different times is read after the
\* order was fulfilled
C12_LogReadAfterGrowth ==
    /\ ret.op = "GetPaymentEvents"
    /\ Len(ret.arg) >= 2
    /\ ret.arg[1].CreatedAt < ret.arg[2].CreatedAt
    /\ Has(orders, "o1")
    /\ Stored("o1").Status = OrderStatusFulfilled

\* The cents of the orders ids that are paid or fulfilled
RECURSIVE CompletedCents(_)
CompletedCents(ids) ==
    IF ids = {} THEN 0
    ELSE LET id == CHOOSE x \in ids : TRUE
         IN (IF Stored(id).Status \in {OrderStatusPaid, OrderStatusFulfilled}
             THEN Stored(id).Payment.Amount ELSE 0) + CompletedCents(ids \ {id})

\* C13: GetPaymentStats returns the number of stored orders, of pending, of
\* completed (paid or fulfilled) and of refunded orders, as total revenue
\* the sum of the amounts (cents / 100) of the completed orders, and as
\* average order value that revenue divided by the number of completed
\* orders, 0 when there is none; amounts 1000 / 2000 / 1500 with statuses
\* paid / fulfilled / pending give 3, 2, 1, 30.00 and 15.00.
C13_StatsCountAndSum ==
    ret.op = "GetPaymentStats"
    => LET st == ret.arg
           n(S) == Cardinality({id \in DOMAIN orders : Stored(id).Status \in S})
           completed == n({OrderStatusPaid, OrderStatusFulfilled})
           cents == CompletedCents(DOMAIN orders)
       IN /\ ret.err = OK
          /\ st.TotalOrders = Cardinality(DOMAIN orders)
          /\ st.PendingOrders = n({OrderStatusPending})
          /\ st.CompletedOrders = completed
          /\ st.RefundedOrders = n({OrderStatusRefunded})
          /\ st.TotalRevenue.num * 100 = cents * st.TotalRevenue.den
          /\ st.AverageOrderValue.num * 100 * completed
                = cents * st.AverageOrderValue.den
          /\ (completed = 0 => st.AverageOrderValue.num = 0)
          /\ st.AverageOrderValue.den > 0
          /\ ((/\ DOMAIN orders = {"o1", "o2", "o3"}
               /\ Stored("o1").Status = OrderStatusPaid
               /\ Stored("o2").Status = OrderStatusFulfilled
               /\ Stored("o3").Status = OrderStatusPending)
              => /\ st.TotalOrders = 3
                 /\ st.CompletedOrders = 2
                 /\ st.PendingOrders = 1
                 /\ st.TotalRevenue.num = 30 * st.TotalRevenue.den
                 /\ st.AverageOrderValue.num = 15 * st.AverageOrderValue.den)

\* C13 witness: the statistics of the three orders of the example are read
C13_StatsOfExample ==
    /\ ret.op = "GetPaymentStats"
    /\ DOMAIN orders = {"o1", "o2", "o3"}
    /\ Stored("o1").Status = OrderStatusPaid
    /\ Stored("o2").Status = OrderStatusFulfilled
    /\ Stored("o3").Status = OrderStatusPending
    /\ ret.arg.TotalOrders = 3

C14_NoLostCreate ==
    /\ \A g \in Goroutines : conc.pc[g] \in {"unlock", "done"} => conc.err[g] = OK
    /\ (\A g \in Goroutines : conc.pc[g] = "done")
       => \A g \in Goroutines :
            LET o == LoadOrders[g]
                byID == GetOrder(Store, o.ID)
                byTracking == GetOrderByTrackingID(Store, o.TrackingID)
            IN /\ byID.err = OK
               /\ byID.order.ID = o.ID
               /\ byID.order.TrackingID = o.TrackingID
               /\ byID.order.Email = o.Email
               /\ byTracking = byID
               /\ \A r \in GetCustomerOrders(Store, o.Email) :
                     /\ r.err = OK
                     /\ r.orders = <<byID.order>>

\* C14 witness: all goroutines have returned, and the one with the last
\* order went before the one with the first
C14_AllReturnedOutOfOrder ==
    /\ \A g \in Goroutines : conc.pc[g] = "done"
    /\ Has(orders, "o1")
    /\ Has(orders, "o3")
    /\ Stored("o3").CreatedAt < Stored("o1").CreatedAt

\* C16: a create-order request with a customer email and at least one item,
\* for which the gateway call succeeds, is answered 201 with the order and a
\* client secret; the order returned, and the order the status endpoint
\* reports next, has a tracking identifier, order status created and payment
\* status pending.
C16_CreatedOrderReported ==
    [][\A req \in ApiRequests, f \in ApiFresh, pi \in {GatewayIntent("pi1")} :
         (/\ req.Email # ""
          /\ Len(req.Items) > 0
          /\ ServeCreateOrder(req, f[1], f[2], pi))
         => /\ resp'.code = StatusCreated
            /\ resp'.body.client_secret # ""
            /\ resp'.body.order.TrackingID # ""
            /\ resp'.body.order.Status = OrderStatusCreated
            /\ resp'.body.order.Payment.Status = PaymentStatusPending
            /\ \A gw \in {"error", "requires_payment_method"} :
                 LET st == HandleGetPaymentStatus(Store', resp'.body.order.ID, gw,
                                                  clock').resp
                 IN /\ st.code = StatusOK
                    /\ st.body.tracking_id # ""
                    /\ st.body.order_status = OrderStatusCreated
                    /\ st.body.payment_status = PaymentStatusPending]_vars

\* C16 witness: a create-order request was answered 201, and the order of
\* the answer is stored
C16_OrderCreatedByRequest ==
    /\ resp.route = "POST /api/payments/create-order"
    /\ resp.code = StatusCreated
    /\ Has(orders, resp.body.order.ID)
    /\ View(Store, Stored(resp.body.order.ID)) = resp.body.order

\* C17: the webhook endpoint answers 400 and changes nothing in the store
\* when the signature does not verify, and answers 200 with status
\* "success" for every payload whose signature verifies, whatever its type
\* and whichever of its optional fields are absent.
C17_VerifiedAlwaysSuccess ==
    [][\A verified \in BOOLEAN, event \in HookEvents :
         ServeWebhook(verified, event)
         => IF verified
            THEN /\ resp'.code = StatusOK
                 /\ resp'.body = [status |-> "success"]
            ELSE /\ resp'.code = StatusBadRequest
                 /\ Store' = Store]_vars

\* C17 witness: a webhook request was answered after a handler panicked on
\* an absent field
C17_VerifiedAnsweredError ==
    /\ resp.route = "POST /api/payments/webhook"
    /\ resp.code = StatusInternalServerError

\* The event types the dispatcher handles with a store update
HandledTypes ==
    {"payment_intent.succeeded", "payment_intent.payment_failed",
     "payment_intent.canceled", "checkout.session.completed"}

\* The stored orders that carry the gateway identifier of the event: its
\* payment intent, or for a checkout session its session or payment intent
Carriers(event) ==
    {id \in DOMAIN orders :
       IF event.Type = "checkout.session.completed"
       THEN \/ Stored(id).Payment.StripeSessionID = event.ID
            \/ (/\ event.PaymentIntent # Nil
                /\ Stored(id).Payment.StripePaymentIntentID = event.PaymentIntent)
       ELSE Stored(id).Payment.StripePaymentIntentID = event.ID}

\* C18: a verified event whose type is not one the dispatcher handles, or
\* whose gateway identifier no stored order carries, leaves the orders, the
\* indexes and the event logs as they were, and is answered 200.
C18_UnknownEventIgnored ==
    [][\A event \in HookEvents :
         (/\ ServeWebhook(TRUE, event)
          /\ (event.Type \notin HandledTypes \/ Carriers(event) = {}))
         => /\ Store' = Store
            /\ resp'.code = StatusOK]_vars

\* C18 witness: a webhook request was answered 200 while orders are stored
\* and no log has more than the event of the order's creation
C18_EventDropped ==
    /\ resp.route = "POST /api/payments/webhook"
    /\ resp.code = StatusOK
    /\ orders # EmptyMap
    /\ \A id \in DOMAIN events : Len(events[id]) = 1

\* C19: for a verified event of a handled type whose gateway identifier
\* some stored order carries, the dispatcher finds such an order, sets its
\* payment status and order status to those the event denotes (succeeded
\* and paid, failed, canceled and canceled, succeeded), and appends exactly
\* one PaymentEvent to the log of that order and none to another.
C19_EventApplied ==
    [][\A event \in HookEvents :
         (/\ ServeWebhook(TRUE, event)
          /\ event.Type \in HandledTypes
          /\ Carriers(event) # {})
         => \E id \in Carriers(event) :
              LET new == GetOrder(Store', id).order IN
              /\ CASE event.Type = "payment_intent.succeeded"
                        -> /\ new.Payment.Status = PaymentStatusSucceeded
                           /\ new.Status = OrderStatusPaid
                   [] event.Type = "payment_intent.payment_failed"
                        -> new.Payment.Status = PaymentStatusFailed
                   [] event.Type = "payment_intent.canceled"
                        -> /\ new.Payment.Status = PaymentStatusCanceled
                           /\ new.Status = OrderStatusCanceled
                   [] event.Type = "checkout.session.completed"
                        -> new.Payment.Status = PaymentStatusSucceeded
              /\ Len(Lookup(events', id)) = Len(Lookup(events, id)) + 1
              /\ SubSeq(Lookup(events', id), 1, Len(Lookup(events, id)))
                   = Lookup(events, id)
              /\ \A other \in DOMAIN events :
                   other # id => events'[other] = events[other]]_vars

\* C19 witness: a payment_intent.succeeded event was applied to the order
\* that carries its payment intent
C19_SucceededApplied ==
    /\ resp.route = "POST /api/payments/webhook"
    /\ resp.code = StatusOK
    /\ Has(orders, "o1")
    /\ Stored("o1").Payment.Status = PaymentStatusSucceeded
    /\ Stored("o1").Status = OrderStatusPaid
    /\ Len(Lookup(events, "o1")) = 2
    /\ Lookup(events, "o1")[2].EventType = "payment_succeeded"

\* C20: the fulfill endpoint answers 404 for an order that is not stored and
\* 400 for an order whose status is not paid, and changes nothing in both
\* cases; for an order in status paid it answers 200, and then the order
\* has status fulfilled and a FulfilledAt, and its event log has grown by
\* one order_fulfilled event.
C20_FulfillOnlyPaid ==
    [][\A id \in OrderIDs :
         ServeFulfillOrder(id)
         => IF ~Has(orders, id)
            THEN resp'.code = StatusNotFound /\ Store' = Store
            ELSE IF Stored(id).Status # OrderStatusPaid
            THEN resp'.code = StatusBadRequest /\ Store' = Store
            ELSE LET new == GetOrder(Store', id).order
                     log == Lookup(events', id)
                 IN /\ resp'.code = StatusOK
                    /\ new.Status = OrderStatusFulfilled
                    /\ new.FulfilledAt # NoTime
                    /\ Len(log) = Len(Lookup(events, id)) + 1
                    /\ SubSeq(log, 1, Len(log) - 1) = Lookup(events, id)
                    /\ log[Len(log)].EventType = "order_fulfilled"
                    /\ log[Len(log)].OrderID = id]_vars

\* C20 witness: a paid order was fulfilled by the endpoint
C20_PaidOrderFulfilled ==
    /\ resp.route = "POST /api/payments/fulfill"
    /\ resp.code = StatusOK
    /\ Has(orders, resp.body.order_id)
    /\ Stored(resp.body.order_id).Status = OrderStatusFulfilled
    /\ Stored(resp.body.order_id).FulfilledAt # NoTime

\* C21: the refund endpoint answers 404 for an order that is not stored and
\* 400 for an order without a payment intent identifier, and changes nothing
\* in both cases; otherwise it answers 200, and then the order has status
\* refunded, payment status refunded and a refunded timestamp, and its event
\* log has grown by one order_refunded event.
C21_RefundRecorded ==
    [][\A id \in OrderIDs :
         ServeRefundOrder(id)
         => IF ~Has(orders, id)
            THEN resp'.code = StatusNotFound /\ Store' = Store
            ELSE IF Stored(id).Payment.StripePaymentIntentID = ""
            THEN resp'.code = StatusBadRequest /\ Store' = Store
            ELSE LET new == GetOrder(Store', id).order
                     log == Lookup(events', id)
                 IN /\ resp'.code = StatusOK
                    /\ new.Status = OrderStatusRefunded
                    /\ new.Payment.Status = PaymentStatusRefunded
                    /\ new.Payment.RefundedAt # NoTime
                    /\ Len(log) = Len(Lookup(events, id)) + 1
                    /\ SubSeq(log, 1, Len(log) - 1) = Lookup(events, id)
                    /\ log[Len(log)].EventType = "order_refunded"]_vars

\* C21 witness: an order was refunded by the endpoint
C21_OrderRefunded ==
    /\ resp.route = "POST /api/payments/refund"
    /\ resp.code = StatusOK
    /\ Has(orders, resp.body.order_id)
    /\ Stored(resp.body.order_id).Status = OrderStatusRefunded
    /\ Stored(resp.body.order_id).Payment.Status = PaymentStatusRefunded

-----------------------------------------------------------------------------
(* The relational backend: store/postgres_store.go over the schema of       *)
(* db/init.  A table is a map from its unique key to the row; a statement   *)
(* that violates a constraint fails and its transaction leaves no trace.    *)
(* Conversions done by database/sql and lib/pq are outside the repository   *)
(* and are taken to succeed.                                                *)

Db == [orders |-> pgOrders, items |-> pgItems, payments |-> pgPayments]

ErrInsertOrder == "failed to insert order"
ErrGetOrder == "failed to get order"

\* PostgresStore.CreateOrder(order): three INSERTs in one transaction.
\* orders.id is the PRIMARY KEY and orders.tracking_id is UNIQUE; created_at
\* and updated_at are the caller's values; fulfilled_at, processed_at and
\* refunded_at are not among the inserted columns and stay NULL.
PgCreateOrder(db, order) ==
    IF \/ Has(db.orders, order.ID)
       \/ \E id \in DOMAIN db.orders : db.orders[id].tracking_id = order.TrackingID
    THEN [db |-> db, err |-> ErrInsertOrder]
    ELSE [db |-> [db EXCEPT
                    !.orders = Put(@, order.ID,
                        [tracking_id |-> order.TrackingID,
                         customer_email |-> order.Email,
                         status |-> order.Status,
                         metadata |-> order.Metadata,
                         created_at |-> order.CreatedAt,
                         updated_at |-> order.UpdatedAt,
                         fulfilled_at |-> NoTime]),
                    !.items = Put(@, order.ID, order.Items),
                    !.payments = Put(@, order.ID,
                        [stripe_payment_intent_id |-> order.Payment.StripePaymentIntentID,
                         stripe_session_id |-> order.Payment.StripeSessionID,
                         amount |-> order.Payment.Amount,
                         status |-> order.Payment.Status,
                         processed_at |-> NoTime,
                         refunded_at |-> NoTime])],
          err |-> OK]

\* The orders a SELECT without ORDER BY may return for the rows in seq
RowOrders(seq) ==
    {[i \in 1..Len(seq) |-> seq[f[i]]] : f \in Permutations(1..Len(seq))}

\* PostgresStore.GetOrder(orderID): every result the two SELECTs can give.
\* The LEFT JOIN yields NULL payment columns when the payment row is
\* missing, which Scan cannot store into the struct's strings.
PgGetOrder(db, orderID) ==
    IF ~Has(db.orders, orderID) THEN {[order |-> NilRef, err |-> ErrNotFound]}
    ELSE IF ~Has(db.payments, orderID) THEN {[order |-> NilRef, err |-> ErrGetOrder]}
    ELSE
      LET o == db.orders[orderID]
          pm == db.payments[orderID]
      IN {[order |->
              Order(orderID, o.tracking_id, o.customer_email, items, o.metadata,
                    PaymentInfo(pm.stripe_payment_intent_id, pm.stripe_session_id,
                                pm.amount, pm.status, pm.processed_at, pm.refunded_at),
                    o.status, o.created_at, o.updated_at, o.fulfilled_at),
           err |-> OK] : items \in RowOrders(Lookup(db.items, orderID))}

\* An UPDATE whose WHERE clause matches no row changes nothing and is no
\* error.
\* PostgresStore.UpdateOrder(order), first statement: UPDATE orders
PgUpdateOrderRow(db, order, now) ==
    IF Has(db.orders, order.ID)
    THEN [db EXCEPT !.orders[order.ID] =
             [@ EXCEPT !.customer_email = order.Email,
                       !.status = order.Status,
                       !.metadata = order.Metadata,
                       !.updated_at = now,
                       !.fulfilled_at = order.FulfilledAt]]
    ELSE db

\* PostgresStore.UpdateOrder(order), second statement: UPDATE payments
PgUpdatePaymentRow(db, order) ==
    IF Has(db.payments, order.ID)
    THEN [db EXCEPT !.payments[order.ID] =
             [stripe_payment_intent_id |-> order.Payment.StripePaymentIntentID,
              stripe_session_id |-> order.Payment.StripeSessionID,
              amount |-> order.Payment.Amount,
              status |-> order.Payment.Status,
              processed_at |-> order.Payment.ProcessedAt,
              refunded_at |-> order.Payment.RefundedAt]]
    ELSE db

\* PostgresStore.UpdateOrder(order): two UPDATEs, no transaction
PgUpdateOrder(db, order, now) ==
    [db |-> PgUpdatePaymentRow(PgUpdateOrderRow(db, order, now), order), err |-> OK]

\* PostgresStore.UpdateOrderStatus(orderID, status): one UPDATE
PgUpdateOrderStatus(db, orderID, status, now) ==
    IF ~Has(db.orders, orderID) THEN [db |-> db, err |-> OK]
    ELSE
      LET r1 == [db.orders[orderID] EXCEPT !.status = status, !.updated_at = now]
          r2 == IF status = OrderStatusFulfilled
                THEN [r1 EXCEPT !.fulfilled_at = now]
                ELSE r1
      IN [db |-> [db EXCEPT !.orders[orderID] = r2], err |-> OK]

\* PostgresStore.UpdatePaymentStatus(orderID, status): two UPDATEs in one
\* transaction
PgUpdatePaymentStatus(db, orderID, status, now) ==
    LET d1 == IF ~Has(db.payments, orderID) THEN db
              ELSE [db EXCEPT !.payments[orderID] =
                       IF status = PaymentStatusSucceeded
                       THEN [@ EXCEPT !.status = status, !.processed_at = now]
                       ELSE IF status = PaymentStatusRefunded
                       THEN [@ EXCEPT !.status = status, !.refunded_at = now]
                       ELSE [@ EXCEPT !.status = status]]
        d2 == IF status = PaymentStatusSucceeded /\ Has(d1.orders, orderID)
              THEN [d1 EXCEPT !.orders[orderID] =
                       [@ EXCEPT !.status = OrderStatusPaid, !.updated_at = now]]
              ELSE d1
    IN [db |-> d2, err |-> OK]

PgCommit(db) ==
    /\ pgOrders' = db.orders
    /\ pgItems' = db.items
    /\ pgPayments' = db.payments

CallPgCreateOrder(order) ==
    LET r == PgCreateOrder(Db, order)
    IN /\ PgCommit(r.db)
       /\ ret' = Result("CreateOrder", order.ID, order, r.err)
       /\ UNCHANGED <<memVars, held, clock, created, conc, resp, tx>>

CallPgUpdateOrder(order) ==
    LET r == PgUpdateOrder(Db, order, clock)
    IN /\ PgCommit(r.db)
       /\ ret' = Result("UpdateOrder", order.ID, order, r.err)
       /\ UNCHANGED <<memVars, held, clock, created, conc, resp, tx>>

CallPgUpdateOrderStatus(orderID, status) ==
    LET r == PgUpdateOrderStatus(Db, orderID, status, clock)
    IN /\ PgCommit(r.db)
       /\ ret' = Result("UpdateOrderStatus", orderID, status, r.err)
       /\ UNCHANGED <<memVars, held, clock, created, conc, resp, tx>>

CallPgUpdatePaymentStatus(orderID, status) ==
    LET r == PgUpdatePaymentStatus(Db, orderID, status, clock)
    IN /\ PgCommit(r.db)
       /\ ret' = Result("UpdatePaymentStatus", orderID, status, r.err)
       /\ UNCHANGED <<memVars, held, clock, created, conc, resp, tx>>

ErrUpdatePayment == "failed to update payment"

\* UpdateOrder(order) runs its first statement, s.db.Exec of UPDATE orders
\* (the statement succeeds; its failure returns before anything is written)
PgUpdateOrderBegin(order) ==
    /\ tx = NoCall
    /\ PgCommit(PgUpdateOrderRow(Db, order, clock))
    /\ tx' = [order |-> order, now |-> clock, before |-> Db]
    /\ UNCHANGED <<memVars, held, clock, ret, created, conc, resp>>

\* UpdateOrder runs its second statement, s.db.Exec of UPDATE payments,
\* which succeeds or fails (failed |-> the connection is lost, the statement
\* times out), and returns
PgUpdateOrderEnd(failed) ==
    /\ tx # NoCall
    /\ IF failed
       THEN /\ UNCHANGED pgVars
            /\ ret' = Result("UpdateOrder", tx.order.ID, tx.order, ErrUpdatePayment)
       ELSE /\ PgCommit(PgUpdatePaymentRow(Db, tx.order))
            /\ ret' = Result("UpdateOrder", tx.order.ID, tx.order, OK)
    /\ tx' = NoCall
    /\ UNCHANGED <<memVars, held, clock, created, conc, resp>>

\* A reader calls GetOrder(orderID), at any time
CallPgGetOrder(orderID) ==
    \E r \in PgGetOrder(Db, orderID) :
       /\ ret' = Result("GetOrder", orderID, r.order, r.err)
       /\ UNCHANGED <<memVars, pgVars, held, clock, created, conc, resp, tx>>

-----------------------------------------------------------------------------
(* SpecPg: the relational store under the calls the handlers and the tests  *)
(* make: orders are created from literals (by value: nothing of the caller  *)
(* is kept), statuses are set, whole orders are written back.               *)

\* An order value as a caller passes it: Items and Metadata by contents
OrderValue(id, tid, email, items, pay, status, fulfilledAt) ==
    Order(id, tid, email, items, <<>>, pay, status, ZeroTime, ZeroTime, fulfilledAt)

PendingPayment == PaymentInfo("", "", 999, PaymentStatusPending, NoTime, NoTime)
\* a payment that was captured at time t
PaidPayment(t) == PaymentInfo("pi_1", "", 999, PaymentStatusSucceeded, t, NoTime)

\* The order literals given to CreateOrder: a new order as the create-order
\* handler builds it, the same without an identifier, and an order that
\* is already paid and fulfilled
PgCreateInputs ==
    {OrderValue("o1", "t1", "a@x", <<"p1", "p2">>, PendingPayment,
                OrderStatusCreated, NoTime),
     OrderValue("", "t2", "b@x", <<"p1">>, PendingPayment,
                OrderStatusCreated, NoTime),
     OrderValue("o1", "t1", "a@x", <<"p1">>, PaidPayment(1),
                OrderStatusFulfilled, 1)}

\* The orders given to UpdateOrder: a stored or unknown identifier, with a
\* payment intent attached and the status moved on
PgUpdateInputs ==
    {OrderValue(id, "t1", email, <<"p1">>,
                PaymentInfo("pi_1", "", 999, PaymentStatusPending, NoTime, NoTime),
                OrderStatusPending, NoTime) :
        id \in OrderIDs, email \in {"b@x"}}

PgCreate == \E order \in PgCreateInputs : CallPgCreateOrder(order)

PgUpdate == \E order \in PgUpdateInputs : CallPgUpdateOrder(order)

PgSetOrder ==
    \E id \in OrderIDs, st \in OrderStatus : CallPgUpdateOrderStatus(id, st)

PgSetPayment ==
    \E id \in OrderIDs, st \in PaymentStatus : CallPgUpdatePaymentStatus(id, st)

NextPg == PgCreate \/ PgUpdate \/ PgSetOrder \/ PgSetPayment \/ Tick

SpecPg == Init /\ [][NextPg]_vars

(* SpecBoth: the in-memory store and the relational store, both empty at     *)
(* first, are driven by the same calls; ret.err holds the two outcomes.     *)

\* CreateOrder of the create-order handler's order literal on both stores
BothCreateOrder(id, tid, email) ==
    LET a == NewOrder(Store, FreshOrder(id, tid, email), <<"p1">>, <<>>)
        m == CreateOrder(a.s, a.p, clock)
        c == Collect(m.s, held)
        q == PgCreateOrder(Db, OrderValue(id, tid, email, <<"p1">>, PendingPayment,
                                          OrderStatusCreated, NoTime))
    IN /\ Commit(c.s)
       /\ held' = c.held
       /\ PgCommit(q.db)
       /\ ret' = Result("CreateOrder", id, tid, <<m.err, q.err>>)
       /\ UNCHANGED <<clock, created, conc, resp, tx>>

BothUpdateOrderStatus(orderID, status) ==
    LET m == UpdateOrderStatus(Store, orderID, status, clock)
        q == PgUpdateOrderStatus(Db, orderID, status, clock)
    IN /\ Commit(m.s)
       /\ PgCommit(q.db)
       /\ ret' = Result("UpdateOrderStatus", orderID, status, <<m.err, q.err>>)
       /\ UNCHANGED <<clock, held, created, conc, resp, tx>>

BothUpdatePaymentStatus(orderID, status) ==
    LET m == UpdatePaymentStatus(Store, orderID, status, clock)
        q == PgUpdatePaymentStatus(Db, orderID, status, clock)
    IN /\ Commit(m.s)
       /\ PgCommit(q.db)
       /\ ret' = Result("UpdatePaymentStatus", orderID, status, <<m.err, q.err>>)
       /\ UNCHANGED <<clock, held, created, conc, resp, tx>>

BothCreate ==
    \E tid \in TrackIDs :
       /\ Len(IndexEntries) < MaxIndexLen
       /\ BothCreateOrder("o1", tid, "a@x")

BothSetOrder ==
    \E id \in OrderIDs, st \in {OrderStatusPaid, OrderStatusFulfilled} :
       BothUpdateOrderStatus(id, st)

BothSetPayment ==
    \E id \in OrderIDs, st \in {PaymentStatusSucceeded, PaymentStatusRefunded} :
       BothUpdatePaymentStatus(id, st)

NextBoth == BothCreate \/ BothSetOrder \/ BothSetPayment \/ Tick

SpecBoth == Init /\ [][NextBoth]_vars

(* SpecTx: the relational store with one writer whose UpdateOrder runs      *)
(* statement by statement, and a reader that calls GetOrder in between.     *)

TxCreate == tx = NoCall /\ PgCreate

TxUpdateBegin == \E order \in PgUpdateInputs : PgUpdateOrderBegin(order)

TxUpdateEnd == \E failed \in BOOLEAN : PgUpdateOrderEnd(failed)

TxSetPayment ==
    /\ tx = NoCall
    /\ \E id \in OrderIDs : CallPgUpdatePaymentStatus(id, PaymentStatusSucceeded)

TxRead == \E id \in OrderIDs : CallPgGetOrder(id)

NextTx == TxCreate \/ TxUpdateBegin \/ TxUpdateEnd \/ TxSetPayment \/ TxRead \/ Tick

SpecTx == Init /\ [][NextTx]_vars

\* Two orders agree in everything but the server-assigned CreatedAt and
\* UpdatedAt; item rows may come back in any order
SameButTimestamps(got, want) ==
    /\ [got EXCEPT !.CreatedAt = ZeroTime, !.UpdatedAt = ZeroTime, !.Items = <<>>]
         = [want EXCEPT !.CreatedAt = ZeroTime, !.UpdatedAt = ZeroTime, !.Items = <<>>]
    /\ got.Items \in RowOrders(want.Items)

\* C5 (relational backend): when CreateOrder(order) of an order with a
\* non-empty identifier has succeeded, GetOrder(order.ID) returns an order
\* equal to the input in identifier, tracking identifier, customer, items,
\* payment record, status and metadata; only CreatedAt and UpdatedAt differ.
C5_PgCreateThenGet ==
    (ret.op = "CreateOrder" /\ ret.id # "" /\ ret.err = OK)
    => \A r \in PgGetOrder(Db, ret.id) :
           r.err = OK /\ SameButTimestamps(r.order, ret.arg)

\* C5 witness: an order that is already paid and fulfilled was created
C5_PgCreatedFulfilled ==
    /\ ret.op = "CreateOrder" /\ ret.err = OK
    /\ ret.arg.FulfilledAt # NoTime
    /\ Has(pgOrders, ret.id)

\* C7 (relational backend): a call with invalid input fails and changes
\* nothing: CreateOrder with an empty identifier returns an error, and
\* GetOrder, UpdateOrder, UpdateOrderStatus and UpdatePaymentStatus with an
\* identifier that is not stored return the not-found error; no row changes.
C7_PgInvalidInputRejected ==
    [][/\ \A o \in PgCreateInputs :
            (o.ID = "" /\ CallPgCreateOrder(o))
            => (ret'.err # OK /\ UNCHANGED pgVars)
       /\ \A o \in PgUpdateInputs :
            (~Has(pgOrders, o.ID) /\ CallPgUpdateOrder(o))
            => (ret'.err = ErrNotFound /\ UNCHANGED pgVars)
       /\ \A id \in OrderIDs, st \in OrderStatus :
            (~Has(pgOrders, id) /\ CallPgUpdateOrderStatus(id, st))
            => (ret'.err = ErrNotFound /\ UNCHANGED pgVars)
       /\ \A id \in OrderIDs, st \in PaymentStatus :
            (~Has(pgOrders, id) /\ CallPgUpdatePaymentStatus(id, st))
            => (ret'.err = ErrNotFound /\ UNCHANGED pgVars)
       /\ \A id \in OrderIDs :
            ~Has(pgOrders, id)
            => \A r \in PgGetOrder(Db, id) : r.err = ErrNotFound]_vars

\* C7 witness: a status setter was called with an identifier that is not
\* stored, next to an order that is
C7_PgUnknownIdentifierUsed ==
    /\ ret.op \in {"UpdateOrderStatus", "UpdatePaymentStatus"}
    /\ ~Has(pgOrders, ret.id)
    /\ pgOrders # EmptyMap

\* C8 (relational backend): UpdateOrderStatus(id, fulfilled) on a stored order
\* leaves FulfilledAt set; once FulfilledAt is set no UpdateOrderStatus call
\* changes its value; a status other than fulfilled never sets it.
C8_PgFulfilledAtSetOnce ==
    [][\A id \in OrderIDs, st \in OrderStatus :
         (Has(pgOrders, id) /\ CallPgUpdateOrderStatus(id, st))
         => /\ (st = OrderStatusFulfilled => pgOrders'[id].fulfilled_at # NoTime)
            /\ (pgOrders[id].fulfilled_at # NoTime
                => pgOrders'[id].fulfilled_at = pgOrders[id].fulfilled_at)
            /\ (st # OrderStatusFulfilled /\ pgOrders[id].fulfilled_at = NoTime
                => pgOrders'[id].fulfilled_at = NoTime)]_vars

\* C8 witness: an order fulfilled at an earlier time is set to fulfilled again
C8_PgFulfilledTwice ==
    /\ ret.op = "UpdateOrderStatus" /\ ret.arg = OrderStatusFulfilled
    /\ Has(pgOrders, ret.id)
    /\ pgOrders[ret.id].fulfilled_at > 1

\* C22 (relational backend): a write that touches more than one row is
\* atomic.  While UpdateOrder is between its statements, and when it has
\* returned with or without an error, the rows are either those from before
\* the call or those with both the order row and the payment row written:
\* no reader sees, and no failure leaves, an order row written without its
\* payment row.
C22_PgWritesAtomic ==
    [][LET call == IF tx' # NoCall THEN tx' ELSE tx
       IN call # NoCall
          => Db' \in {call.before, PgUpdateOrder(call.before, call.order, call.now).db}]_vars

\* C22 witness: a reader got the order while UpdateOrder was between its
\* statements
C22_PgReadDuringUpdate ==
    /\ tx # NoCall
    /\ Has(pgOrders, tx.order.ID)
    /\ ret.op = "GetOrder" /\ ret.id = tx.order.ID /\ ret.err = OK
    /\ ret.arg.Status = tx.order.Status
    /\ ret.arg.Payment.Status = tx.before.payments[tx.order.ID].status


\* C23: the two backends, driven from empty by the same calls, are
\* observably equivalent: every call succeeds on both or fails on both, and
\* GetOrder gives on both the same outcome and, for a stored order, the same
\* statuses and the same timestamps set or unset.
C23_BackendsAgree ==
    /\ ret.op # "none" => ((ret.err[1] = OK) <=> (ret.err[2] = OK))
    /\ \A id \in OrderIDs :
         LET m == GetOrder(Store, id) IN
         \A q \in PgGetOrder(Db, id) :
            /\ (m.err = OK) <=> (q.err = OK)
            /\ (m.err = OK /\ q.err = OK)
               => /\ m.order.Status = q.order.Status
                  /\ m.order.Payment.Status = q.order.Payment.Status
                  /\ (m.order.FulfilledAt = NoTime) <=> (q.order.FulfilledAt = NoTime)
                  /\ (m.order.Payment.ProcessedAt = NoTime)
                       <=> (q.order.Payment.ProcessedAt = NoTime)
                  /\ (m.order.Payment.RefundedAt = NoTime)
                       <=> (q.order.Payment.RefundedAt = NoTime)

\* C23 witness: both stores hold order o1 and a status setter has succeeded
\* on both
C23_BothUpdated ==
    /\ ret.op \in {"UpdateOrderStatus", "UpdatePaymentStatus"}
    /\ ret.err = <<OK, OK>>
    /\ Has(orders, "o1")
    /\ Has(pgOrders, "o1")


\* the mutex excludes: a writer inside s.mu is alone there
MuExclusive == \A g \in conc.mu : IsWrite(conc.op[g]) => conc.mu = {g}

\* no method returns holding the mutex, and the mutex is held only by
\* goroutines between a lock and its unlock
MuReleased ==
    \A g \in Goroutines :
       g \in conc.mu <=> conc.pc[g] \in {"locked", "locked2", "unlock1", "unlock"}

\* whenever a called method has not returned, some goroutine can step
MuNoDeadlock ==
    (\E g \in Goroutines : conc.pc[g] \notin {"go", "done"}) => ENABLED LockStep

\* a body takes effect at once, as the method run alone on the store of that
\* moment would; GetOrderByTrackingID returns what it would return run alone
\* at its second section, where GetOrder reads the order
MuLinearized ==
    \A g \in Goroutines :
       MuBody(g) =>
          LET op == conc.op[g]
              alone == MuApply(Store, op, clock)
          IN /\ conc'.seen[g] = <<alone.res>>
             /\ Store' = Collect(alone.s, held).s

\* C24: the in-memory store's methods hold the mutex as they must (writers
\* alone, readers shared, nobody after return, nobody twice), so no called
\* method waits for ever: each returns, and each takes effect at one moment
\* between its call and its return, as if run alone.
C24_LockDiscipline ==
    /\ [](MuExclusive /\ MuReleased /\ MuNoDeadlock)
    /\ [][MuLinearized]_vars
    /\ \A g \in Goroutines : (conc.pc[g] # "go") ~> (conc.pc[g] = "done")

\* C24 witness: a writer holds the mutex between the two sections of a
\* GetOrderByTrackingID that found the order another goroutine created
C24_WriterBetweenSections ==
    \E g, h \in Goroutines :
       /\ conc.pc[g] = "lock2"
       /\ conc.op[g][1] = "GetOrderByTrackingID"
       /\ conc.pc[h] \in {"locked", "unlock"}
       /\ conc.op[h][1] = "UpdateOrderStatus"

\* The order status changes and the payment status changes of the lifecycle
OrderEdges ==
    {<<OrderStatusCreated, OrderStatusPending>>, <<OrderStatusPending, OrderStatusPaid>>,
     <<OrderStatusPaid, OrderStatusFulfilled>>, <<OrderStatusPaid, OrderStatusRefunded>>,
     <<OrderStatusPending, OrderStatusCanceled>>}
PaymentEdges ==
    {<<PaymentStatusPending, PaymentStatusSucceeded>>,
     <<PaymentStatusPending, PaymentStatusFailed>>,
     <<PaymentStatusPending, PaymentStatusCanceled>>,
     <<PaymentStatusSucceeded, PaymentStatusRefunded>>}

\* C25: whatever requests and webhook deliveries are served, every change of
\* a stored order's status is one of created->pending, pending->paid,
\* paid->fulfilled, paid->refunded, pending->canceled; so a fulfilled,
\* refunded or canceled order never becomes paid again.
C25_OrderLifecycle ==
    [][\A id \in OrderIDs :
         (Has(orders, id) /\ Has(orders', id)
          /\ GetOrder(Store', id).order.Status # Stored(id).Status)
         => <<Stored(id).Status, GetOrder(Store', id).order.Status>> \in OrderEdges]_vars

\* C25 witness: a request or a delivery was served on an order that is
\* fulfilled, refunded or canceled
C25_ServedAfterEnd ==
    /\ Has(orders, "o1")
    /\ Stored("o1").Status \in {OrderStatusFulfilled, OrderStatusRefunded,
                                 OrderStatusCanceled}
    /\ resp.route = "GET /api/payments/status"

\* C26: every change of a stored order's payment status is one of
\* pending->succeeded, pending->failed, pending->canceled,
\* succeeded->refunded; so neither the status endpoint nor a webhook sets a
\* refunded payment back to succeeded.
C26_PaymentLifecycle ==
    [][\A id \in OrderIDs :
         (Has(orders, id) /\ Has(orders', id)
          /\ GetOrder(Store', id).order.Payment.Status # Stored(id).Payment.Status)
         => <<Stored(id).Payment.Status, GetOrder(Store', id).order.Payment.Status>>
               \in PaymentEdges]_vars

\* C26 witness: the status endpoint was served on an order whose payment is
\* refunded
C26_SyncAfterRefund ==
    /\ Has(orders, "o1")
    /\ Stored("o1").Payment.Status = PaymentStatusRefunded
    /\ Stored("o1").Status = OrderStatusRefunded
    /\ resp.route = "GET /api/payments/status"
    /\ resp.code = StatusOK

\* C27: whenever the fulfill endpoint writes fulfilled (it answers 200), the
\* stored order has payment status succeeded and status paid at that moment.
C27_FulfillsPaidPayment ==
    [][\A id \in OrderIDs :
         (ServeFulfillOrder(id) /\ resp'.code = StatusOK)
         => /\ Stored(id).Status = OrderStatusPaid
            /\ Stored(id).Payment.Status = PaymentStatusSucceeded]_vars

\* C27 witness: the fulfill endpoint has written fulfilled
C27_Fulfilled ==
    /\ resp.route = "POST /api/payments/fulfill"
    /\ resp.code = StatusOK
    /\ Has(orders, "o1")
    /\ Stored("o1").Status = OrderStatusFulfilled


\* C28: the UpdateOrder that ends a read-modify-write (GetOrder, writes to
\* the copy, UpdateOrder) never undoes a status change made in between by
\* UpdatePaymentStatus or UpdateOrderStatus: the stored order keeps its
\* payment status, its order status and its processed timestamp.
C28_StatusSurvivesUpdate ==
    [][\A h \in DOMAIN held :
         (CallUpdateOrderHeld(h) /\ Has(orders, heap[held[h]].ID))
         => LET old == Stored(heap[held[h]].ID)
                new == GetOrder(Store', heap[held[h]].ID).order
            IN /\ new.Status = old.Status
               /\ new.Payment.Status = old.Payment.Status
               /\ new.Payment.ProcessedAt = old.Payment.ProcessedAt]_vars

\* C28 witness: UpdateOrder has stored a copy carrying the session's
\* identifiers on a paid order
C28_SessionStored ==
    /\ ret.op = "UpdateOrder"
    /\ ret.err = OK
    /\ Has(orders, "o1")
    /\ Stored("o1").Payment.StripeSessionID = "cs1"
    /\ Stored("o1").Status = OrderStatusPaid


\* C29: in every state of the in-memory store the indexes agree with the
\* orders map: a trackingIDs entry t -> id names a stored order whose
\* tracking identifier is t, every stored order with a tracking identifier
\* has its entry, and customerIndex[e] lists exactly the stored orders with
\* email e, each once.
C29_IndexesAgree ==
    /\ \A t \in DOMAIN trackingIDs :
          /\ Has(orders, trackingIDs[t])
          /\ Stored(trackingIDs[t]).TrackingID = t
    /\ \A id \in DOMAIN orders :
          Stored(id).TrackingID # ""
          => /\ Has(trackingIDs, Stored(id).TrackingID)
             /\ trackingIDs[Stored(id).TrackingID] = id
    /\ \A e \in Emails :
          LET ids == Lookup(customerIndex, e)
          IN /\ {ids[i] : i \in 1..Len(ids)}
                  = {id \in DOMAIN orders : Stored(id).Email = e}
             /\ \A i, j \in 1..Len(ids) : ids[i] = ids[j] => i = j

\* C29 witness: two orders are stored and both indexes have entries
C29_TwoOrdersIndexed ==
    /\ Has(orders, "o1")
    /\ Has(orders, "o2")
    /\ DOMAIN trackingIDs # {}
    /\ \E e \in Emails : Len(Lookup(customerIndex, e)) > 0


\* C30: a create-order request answered otherwise than 201 (no email, no
\* items, failed gateway call) leaves no order of its own in the store: the
\* orders map, both indexes and the event logs are as before the request.
C30_FailedCreateLeavesNothing ==
    [][\A req \in ApiRequests, f \in ApiFresh,
         pi \in {GatewayError, GatewayIntent("pi1")} :
         (ServeCreateOrder(req, f[1], f[2], pi) /\ resp'.code # StatusCreated)
         => /\ DOMAIN orders' = DOMAIN orders
            /\ trackingIDs' = trackingIDs
            /\ customerIndex' = customerIndex
            /\ events' = events]_vars

\* C30 witness: a create-order request was answered 500 after the gateway
\* call failed
C30_GatewayCallFailed ==
    /\ resp.route = "POST /api/payments/create-order"
    /\ resp.code = StatusInternalServerError


=============================================================================
